---- MODULE Spec2Model ----
(***************************************************************************)
(* Verification model of the openbase AST pipeline:                        *)
(*   parse_django_file_ast / _ast_to_dict   (src/parsing.py,               *)
(*                                           src/server/parsing.py)        *)
(*   transform_models_py and its helpers    (src/server/transformation/    *)
(*                                           transform_models.py)          *)
(*                                                                         *)
(* Python values are modelled as tagged records (field t is the runtime    *)
(* type), so that the isinstance() / .get() dispatch of the code can be    *)
(* translated literally.  A Python str is a sequence of text chunks; a     *)
(* chunk is an atomic piece of text, whitespace and line breaks are        *)
(* chunks of their own, so strip(), splitlines(), startswith(), endswith() *)
(* and find() are computed on the chunk sequence.                          *)
(***************************************************************************)
EXTENDS Integers, Sequences, FiniteSets, TLC

VARIABLES
    prog,       \* flattener: the program text under test (abstract description)
    flat,       \* flattener: result of the last _ast_to_dict call
    fpc,        \* flattener: "input" | "root" | "server" (which flattener ran)
    mfile,      \* extractor: the models.py file under test (abstract description)
    mout,       \* extractor: result of transform_models_py on it
    mpc,        \* extractor: "input" | "done"
    fs,         \* pipeline: path -> content id (0: no such file, -1: not Python)
    seen,       \* pipeline: content id -> what was first answered for it
    last,       \* pipeline: the request served last, None before the first
    req,        \* pipeline: the request in flight, None when there is none
    parser,     \* pipeline: the parsing module in use, "root" | "server"
    class_level_vars,          \* interpreter memory left by the last request
    class_level_choices_vars,  \* interpreter memory left by the last request
    job,        \* management: the subprocess a request waits for, or None
    reply,      \* management: the request answered last, None before the first
    cwd,        \* scaffolding: the working directory of the server process
    dirs,       \* scaffolding: target directory -> what is in it
    workers,    \* scaffolding: request thread -> its position and locals
    messages,   \* chat: session -> number of Message rows stored for it
    invocations,\* chat: the CLI invocations started so far, in order
    chats,      \* chat: request thread -> its position and locals
    disk,       \* source modification: the bytes of the file on disk
    answer      \* source modification: how the last modify request ended

vars == <<prog, flat, fpc, mfile, mout, mpc, fs, seen, last, req, parser,
          class_level_vars, class_level_choices_vars,
          job, reply, cwd, dirs, workers, messages, invocations, chats,
          disk, answer>>

manageVars == <<job, reply>>
appsVars == <<cwd, dirs, workers>>
chatVars == <<messages, invocations, chats>>
modifyVars == <<disk, answer>>
opsVars == <<manageVars, appsVars, chatVars, modifyVars>>
flatVars == <<prog, flat, fpc>>
extrVars == <<mfile, mout, mpc>>
pipeVars == <<fs, seen, last, req, parser,
              class_level_vars, class_level_choices_vars>>

-----------------------------------------------------------------------------
(* Bounds *)

MaxStmts == 2       \* statements in a generated function body
MaxLine == 2        \* largest line number tried for hand-built nodes
MaxBody == 3        \* statements in a generated model class body
MaxChoiceBody == 4  \* statements in a generated class body about choices
MaxClasses == 2     \* top-level declarations in a generated models.py
MaxShapeBody == 2    \* statements of a class body of varied shapes

-----------------------------------------------------------------------------
(* Python values *)

PyNone == [t |-> "none"]
PyStr(chunks) == [t |-> "str", v |-> chunks]
PyInt(n) == [t |-> "int", v |-> n]
PyBool(b) == [t |-> "bool", v |-> b]
PyList(s) == [t |-> "list", v |-> s]
PyDict(d) == [t |-> "dict", v |-> d]
PyTuple(s) == [t |-> "tuple", v |-> s]
\* any other runtime value (Ellipsis, bytes, complex), known by its str()
PyObj(repr) == [t |-> "obj", v |-> repr]
\* an ast.AST instance: class name, _fields and _attributes
Ast(cls, fields, attrs) == [t |-> "ast", cls |-> cls, f |-> fields, a |-> attrs]

NoFields == [k \in {} |-> PyNone]

\* the text "x" as a one-chunk str
S(x) == PyStr(<<x>>)

\* dict.get(key, default)
Get(d, key, default) == IF key \in DOMAIN d.v THEN d.v[key] ELSE default

\* dict.get(key) on a value that may be the {} default
NodeType(d) == Get(d, "_nodetype", PyNone)

IsStr(x, chunks) == x.t = "str" /\ x.v = chunks

\* Python truthiness of the values the code tests with `if x:`
Truthy(x) ==
    CASE x.t = "none" -> FALSE
      [] x.t = "bool" -> x.v
      [] x.t = "int" -> x.v # 0
      [] x.t \in {"str", "list", "tuple"} -> Len(x.v) > 0
      [] x.t = "dict" -> DOMAIN x.v # {}
      [] OTHER -> TRUE

-----------------------------------------------------------------------------
(* str methods on chunk sequences *)

LineBreakChunks == {"\n", "\f"}         \* str.splitlines() boundaries
WhitespaceChunks == {" ", "    ", "\n", "\f"}
TripleQuotes == {"\"\"\"", "'''"}

RECURSIVE LStrip(_)
LStrip(s) ==
    IF s # <<>> /\ Head(s) \in WhitespaceChunks THEN LStrip(Tail(s)) ELSE s

RECURSIVE RStrip(_)
RStrip(s) ==
    IF s # <<>> /\ s[Len(s)] \in WhitespaceChunks
    THEN RStrip(SubSeq(s, 1, Len(s) - 1)) ELSE s

\* str.strip()
Strip(s) == RStrip(LStrip(s))

\* index of the first line-break chunk of s, or Len(s) if there is none
RECURSIVE FirstBreak(_, _)
FirstBreak(s, i) ==
    IF i >= Len(s) \/ s[i] \in LineBreakChunks THEN i ELSE FirstBreak(s, i + 1)

\* str.splitlines(True): the lines of s, each keeping its line break
RECURSIVE splitlines(_)
splitlines(s) ==
    IF s = <<>> THEN <<>>
    ELSE LET i == FirstBreak(s, 1)
         IN <<SubSeq(s, 1, i)>> \o splitlines(SubSeq(s, i + 1, Len(s)))

\* "".join(lines)
RECURSIVE Join(_)
Join(lines) == IF lines = <<>> THEN <<>> ELSE Head(lines) \o Join(Tail(lines))

\* s.find(q) for a quote chunk q: 0-based chunk index, or -1
RECURSIVE FindFrom(_, _, _)
FindFrom(s, q, i) ==
    IF i > Len(s) THEN -1
    ELSE IF s[i] = q THEN i - 1 ELSE FindFrom(s, q, i + 1)

Find(s, q) == FindFrom(s, q, 1)

-----------------------------------------------------------------------------
(* The AST flattener, src/parsing.py *)

\* getattr(node, name, default)
GetAttr(node, name, default) ==
    IF node.t = "ast" /\ name \in DOMAIN node.a THEN node.a[name] ELSE default

\* SkippedFields without the expression context
SkippedFields_NoCtx == {"lineno", "col_offset", "end_lineno", "end_col_offset"}

\* fields the generic branch leaves out (src/parsing.py:78-84)
SkippedFields == {"lineno", "col_offset", "end_lineno", "end_col_offset", "ctx"}

\* FunctionClasses without the asynchronous variant
FunctionClasses_SyncOnly == {"FunctionDef"}

\* the node classes of src/parsing.py:35
FunctionClasses == {"FunctionDef", "AsyncFunctionDef"}

\* Python's lines[a:b] for a >= 0
PySlice(lines, a, b) ==
    SubSeq(lines, a + 1, IF b > Len(lines) THEN Len(lines) ELSE b)

\* ExtractBodySource without the upper bound check on end_idx
ExtractBodySource_NoUpperBound(node, source_code) ==
    LET body == node.f.body
    IN  IF ~Truthy(body) THEN <<>>
        ELSE
          LET first_stmt == body.v[1]
              last_stmt == body.v[Len(body.v)]
              body_start_lineno ==
                  IF first_stmt.t = "ast" /\ "lineno" \in DOMAIN first_stmt.a
                  THEN first_stmt.a.lineno ELSE PyNone
              body_end_lineno ==
                  IF last_stmt.t = "ast" /\ "end_lineno" \in DOMAIN last_stmt.a
                  THEN last_stmt.a.end_lineno
                  ELSE IF last_stmt.t = "ast" /\ "lineno" \in DOMAIN last_stmt.a
                       THEN last_stmt.a.lineno ELSE PyNone
          IN  IF body_start_lineno.t # "none" /\ body_end_lineno.t # "none"
              THEN
                LET all_source_lines == splitlines(source_code)
                    start_idx == body_start_lineno.v - 1
                    end_idx == body_end_lineno.v
                IN  IF /\ 0 <= start_idx
                       /\ start_idx < Len(all_source_lines)
                       /\ start_idx < end_idx
                    THEN Join(PySlice(all_source_lines, start_idx, end_idx))
                    ELSE <<>>
              ELSE <<>>

\* src/parsing.py:39-67: the raw text of a function body, from the first
\* statement's lineno to the last statement's end_lineno
ExtractBodySource(node, source_code) ==
    LET body == node.f.body
    IN  IF ~Truthy(body) THEN <<>>
        ELSE
          LET first_stmt == body.v[1]
              last_stmt == body.v[Len(body.v)]
              body_start_lineno == GetAttr(first_stmt, "lineno", PyNone)
              body_end_lineno ==
                  GetAttr(last_stmt, "end_lineno",
                          GetAttr(last_stmt, "lineno", PyNone))
          IN  IF body_start_lineno.t # "none" /\ body_end_lineno.t # "none"
              THEN
                LET all_source_lines == splitlines(source_code)
                    start_idx == body_start_lineno.v - 1
                    end_idx == body_end_lineno.v
                IN  IF /\ 0 <= start_idx
                       /\ start_idx < Len(all_source_lines)
                       /\ start_idx < end_idx
                       /\ end_idx <= Len(all_source_lines)
                    THEN Join(SubSeq(all_source_lines, start_idx + 1, end_idx))
                    ELSE <<>>
              ELSE <<>>

\* src/parsing.py:23-93
RECURSIVE _ast_to_dict(_, _)
_ast_to_dict(node, source_code) ==
    IF node.t = "ast" THEN
        IF node.cls \in FunctionClasses THEN
            PyDict([k \in {"_nodetype"} \cup DOMAIN node.f
                          \cup (IF "body" \in DOMAIN node.f
                                THEN {"body_source"} ELSE {}) |->
                CASE k = "_nodetype" -> S(node.cls)
                  [] k = "body_source" ->
                        PyStr(ExtractBodySource(node, source_code))
                  [] k = "body" -> PyList(<<>>)
                  [] OTHER -> _ast_to_dict(node.f[k], source_code)])
        ELSE
            PyDict([k \in {"_nodetype"} \cup (DOMAIN node.f \ SkippedFields) |->
                IF k = "_nodetype" THEN S(node.cls)
                ELSE _ast_to_dict(node.f[k], source_code)])
    ELSE IF node.t = "list" THEN
        PyList([i \in 1..Len(node.v) |-> _ast_to_dict(node.v[i], source_code)])
    ELSE IF node.t \in {"str", "int", "float", "bool", "none"} THEN node
    ELSE S(node.v)

-----------------------------------------------------------------------------
(* The AST flattener with docstring splitting, src/server/parsing.py *)

\* one triple quote is one chunk: the code's offsets 3 and 6 are 1 and 2 here
QuoteLen == 1

\* src/server/parsing.py:64-86: [body_source, docstring] of the raw text
SplitDocstring(raw) ==
    LET body_source_str == Strip(raw)
    IN  IF body_source_str # <<>> /\ Head(body_source_str) \in TripleQuotes
        THEN
          LET quote_type == Head(body_source_str)
              rest == SubSeq(body_source_str, QuoteLen + 1, Len(body_source_str))
              docstring_end == Find(rest, quote_type)
          IN  IF docstring_end # -1
              THEN [docstring |->
                        PyStr(Strip(SubSeq(body_source_str, QuoteLen + 1,
                                           docstring_end + QuoteLen))),
                    body_source |->
                        Strip(SubSeq(body_source_str,
                                     docstring_end + 2 * QuoteLen + 1,
                                     Len(body_source_str)))]
              ELSE [docstring |-> PyNone, body_source |-> body_source_str]
        ELSE [docstring |-> PyNone, body_source |-> body_source_str]

\* src/server/parsing.py:33-90: the two keys that stand for the body
ServerBody(node, source_code) ==
    SplitDocstring(ExtractBodySource(node, source_code))

\* src/server/parsing.py:17-112
RECURSIVE server_ast_to_dict(_, _)
server_ast_to_dict(node, source_code) ==
    IF node.t = "ast" THEN
        IF node.cls \in FunctionClasses THEN
            LET hasBody == "body" \in DOMAIN node.f
                sb == IF hasBody THEN ServerBody(node, source_code)
                      ELSE [docstring |-> PyNone, body_source |-> <<>>]
            IN PyDict([k \in ({"_nodetype"} \cup (DOMAIN node.f \ {"body"})
                          \cup (IF hasBody THEN {"body_source"} ELSE {})
                          \cup (IF sb.docstring.t # "none"
                                THEN {"docstring"} ELSE {})) |->
                CASE k = "_nodetype" -> S(node.cls)
                  [] k = "body_source" -> PyStr(sb.body_source)
                  [] k = "docstring" -> sb.docstring
                  [] OTHER -> server_ast_to_dict(node.f[k], source_code)])
        ELSE
            PyDict([k \in {"_nodetype"} \cup (DOMAIN node.f \ SkippedFields) |->
                IF k = "_nodetype" THEN S(node.cls)
                ELSE server_ast_to_dict(node.f[k], source_code)])
    ELSE IF node.t = "list" THEN
        PyList([i \in 1..Len(node.v) |->
                    server_ast_to_dict(node.v[i], source_code)])
    ELSE IF node.t \in {"str", "int", "float", "bool", "none"} THEN node
    ELSE S(node.v)

-----------------------------------------------------------------------------
(* ast node constructors: what ast.parse builds (src/parsing.py:13).       *)
(* Every stmt and expr node has the four position attributes; the         *)
(* expression context is the field ctx.                                    *)

Pos(l, e) == [lineno |-> PyInt(l), end_lineno |-> PyInt(e),
              col_offset |-> PyInt(0), end_col_offset |-> PyInt(0)]
NoAttrs == [k \in {} |-> PyNone]

Load == Ast("Load", NoFields, NoAttrs)
Store == Ast("Store", NoFields, NoAttrs)

Name(id, ctx, l) == Ast("Name", [id |-> PyStr(id), ctx |-> ctx], Pos(l, l))
Attribute(value, attr, l) ==
    Ast("Attribute", [value |-> value, attr |-> S(attr), ctx |-> Load], Pos(l, l))
Constant(val, l) == Ast("Constant", [value |-> val, kind |-> PyNone], Pos(l, l))
keyword(arg, value, l) == Ast("keyword", [arg |-> arg, value |-> value], Pos(l, l))
Call(func, args, keywords, l) ==
    Ast("Call", [func |-> func, args |-> PyList(args),
                 keywords |-> PyList(keywords)], Pos(l, l))
TupleNode(elts, l) ==
    Ast("Tuple", [elts |-> PyList(elts), ctx |-> Load], Pos(l, l))
ListNode(elts, l) ==
    Ast("List", [elts |-> PyList(elts), ctx |-> Load], Pos(l, l))
Assign(targets, value, l, e) ==
    Ast("Assign", [targets |-> PyList(targets), value |-> value,
                   type_comment |-> PyNone], Pos(l, e))
Expr(value, l, e) == Ast("Expr", [value |-> value], Pos(l, e))
Return(value, l) == Ast("Return", [value |-> value], Pos(l, l))
Pass(l) == Ast("Pass", NoFields, Pos(l, l))
arg(name, l) ==
    Ast("arg", [arg |-> S(name), annotation |-> PyNone,
                type_comment |-> PyNone], Pos(l, l))
arguments(args, defaults) ==
    Ast("arguments", [posonlyargs |-> PyList(<<>>), args |-> PyList(args),
                      vararg |-> PyNone, kwonlyargs |-> PyList(<<>>),
                      kw_defaults |-> PyList(<<>>), kwarg |-> PyNone,
                      defaults |-> PyList(defaults)], NoAttrs)
\* cls is "FunctionDef" or "AsyncFunctionDef"; l is the line of `def`
FunctionDef(cls, name, args, body, decorator_list, l, e) ==
    Ast(cls, [name |-> S(name), args |-> args, body |-> PyList(body),
              decorator_list |-> PyList(decorator_list),
              returns |-> PyNone, type_comment |-> PyNone], Pos(l, e))
ClassDef(name, bases, body, l, e) ==
    Ast("ClassDef", [name |-> S(name), bases |-> PyList(bases),
                     keywords |-> PyList(<<>>), body |-> PyList(body),
                     decorator_list |-> PyList(<<>>)], Pos(l, e))
Module(body) ==
    Ast("Module", [body |-> PyList(body), type_ignores |-> PyList(<<>>)],
        NoAttrs)

-----------------------------------------------------------------------------
(* Inputs of the flattener: program texts together with the tree that      *)
(* ast.parse builds for them (src/parsing.py:12-13), and hand-built        *)
(* FunctionDef nodes as other callers of _ast_to_dict may pass them.       *)

\* the two kinds of function definition ast.parse builds
DefKinds == {"FunctionDef", "AsyncFunctionDef"}

StmtKinds == {"simple", "multi", "decorated", "doc", "doc_single",
              "doc_escaped"}

Indent(d) == [i \in 1..d |-> "    "]

\* the source lines of one body statement at indentation depth d
StmtLines(kind, d) ==
    CASE kind = "simple" -> <<Indent(d) \o <<"return x", "\n">>>>
      [] kind = "multi" -> <<Indent(d) \o <<"y = (", "\n">>,
                             Indent(d) \o <<"1)", "\n">>>>
      [] kind = "decorated" -> <<Indent(d) \o <<"@deco", "\n">>,
                                 Indent(d) \o <<"def inner(): pass", "\n">>>>
      [] kind = "doc" -> <<Indent(d) \o <<"\"\"\"", "Doc", "\"\"\"", "\n">>>>
      [] kind = "doc_single" ->
            <<Indent(d) \o <<"'''", "Doc", " ", "\"\"\"", "'''", "\n">>>>
      [] kind = "doc_escaped" ->
            <<Indent(d) \o <<"\"\"\"", "a", " ", "\\", "\"\"\"", " ", "b",
                             "\"\"\"", "\n">>>>

\* the node ast.parse builds for a statement whose text starts on line l;
\* a decorated def is positioned at its `def` line, not at the decorator
StmtNode(kind, l) ==
    CASE kind = "simple" -> Return(Name(<<"x">>, Load, l), l)
      [] kind = "multi" ->
            Assign(<<Name(<<"y">>, Store, l)>>, Constant(PyInt(1), l + 1),
                   l, l + 1)
      [] kind = "decorated" ->
            FunctionDef("FunctionDef", "inner", arguments(<<>>, <<>>),
                        <<Pass(l + 1)>>, <<Name(<<"deco">>, Load, l)>>,
                        l + 1, l + 1)
      [] kind = "doc" -> Expr(Constant(S("Doc"), l), l, l)
      [] kind = "doc_single" ->
            Expr(Constant(PyStr(<<"Doc", " ", "\"\"\"">>), l), l, l)
      [] kind = "doc_escaped" ->
            Expr(Constant(PyStr(<<"a", " ", "\"\"\"", " ", "b">>), l), l, l)

BlankLine == <<"\n">>

\* lines and nodes of a statement list starting on line l
RECURSIVE RenderStmts(_, _, _, _)
RenderStmts(kinds, l, d, blank) ==
    IF kinds = <<>> THEN [lines |-> <<>>, nodes |-> <<>>]
    ELSE LET here == StmtLines(Head(kinds), d)
             gap == IF blank /\ Len(kinds) > 1 THEN <<BlankLine>> ELSE <<>>
             rest == RenderStmts(Tail(kinds), l + Len(here) + Len(gap), d, blank)
         IN  [lines |-> here \o gap \o rest.lines,
              nodes |-> <<StmtNode(Head(kinds), l)>> \o rest.nodes]

PreambleLines(p) ==
    CASE p = "none" -> <<>>
      [] p = "plain" -> <<<<"x = 1", "\n">>>>
      [] p = "formfeed" -> <<<<"x = 1", "\f", "\n">>>>   \* one line for ast.parse

PreambleNodes(p) ==
    IF p = "none" THEN <<>>
    ELSE <<Assign(<<Name(<<"x">>, Store, 1)>>, Constant(PyInt(1), 1), 1, 1)>>

Depth(pr) == IF pr.inClass THEN 1 ELSE 0
\* line of `def`
DefLine(pr) == Len(PreambleNodes(pr.preamble)) + Depth(pr)
               + (IF pr.deco THEN 1 ELSE 0) + 1
BodyRender(pr) ==
    IF pr.oneliner
    THEN [lines |-> <<>>, nodes |-> <<StmtNode("simple", DefLine(pr))>>]
    ELSE RenderStmts(pr.body, DefLine(pr) + 1, Depth(pr) + 1, pr.blank)

FuncLines(pr) ==
    LET d == Depth(pr)
        head == IF pr.cls = "FunctionDef" THEN "def f(a=dflt):"
                ELSE "async def f(a=dflt):"
    IN  (IF pr.deco THEN <<Indent(d) \o <<"@wrap", "\n">>>> ELSE <<>>)
        \o (IF pr.oneliner
            THEN <<Indent(d) \o <<head, " ", "return x", "\n">>>>
            ELSE <<Indent(d) \o <<head, "\n">>>>)
        \o BodyRender(pr).lines

FuncEnd(pr) == DefLine(pr) + Len(BodyRender(pr).lines)

FuncNode(pr) ==
    FunctionDef(pr.cls, "f",
                arguments(<<arg("a", DefLine(pr))>>,
                          <<Name(<<"dflt">>, Load, DefLine(pr))>>),
                BodyRender(pr).nodes,
                IF pr.deco THEN <<Name(<<"wrap">>, Load, DefLine(pr) - 1)>>
                ELSE <<>>,
                DefLine(pr), FuncEnd(pr))

\* a hand-built node: body of 0 or 1 Pass statements whose position
\* attributes are absent (-1), None (-2) or any number
BuiltAttr(n) == IF n = -2 THEN PyNone ELSE PyInt(n)
BuiltAttrs(pr) ==
    [k \in (IF pr.lineno = -1 THEN {} ELSE {"lineno"})
           \cup (IF pr.end_lineno = -1 THEN {} ELSE {"end_lineno"}) |->
        IF k = "lineno" THEN BuiltAttr(pr.lineno) ELSE BuiltAttr(pr.end_lineno)]
BuiltNode(pr) ==
    Ast(pr.cls, [name |-> S("f"), args |-> PyNone,
                 body |-> PyList([i \in 1..pr.stmts |->
                                     Ast("Pass", NoFields, BuiltAttrs(pr))]),
                 decorator_list |-> PyList(<<>>), returns |-> PyNone,
                 type_comment |-> PyNone], NoAttrs)

IsParsed(pr) == pr.src = "parsed"

\* source_code
Source(pr) ==
    IF IsParsed(pr)
    THEN Join(PreambleLines(pr.preamble)
              \o (IF pr.inClass THEN <<<<"class A:", "\n">>>> ELSE <<>>)
              \o FuncLines(pr))
    ELSE Join([i \in 1..pr.nlines |-> <<"pass", "\n">>])

\* the node handed to the flattener
Tree(pr) ==
    IF IsParsed(pr)
    THEN Module(PreambleNodes(pr.preamble)
                \o <<IF pr.inClass
                     THEN ClassDef("A", <<>>, <<FuncNode(pr)>>,
                                   DefLine(pr) - 1 - (IF pr.deco THEN 1 ELSE 0),
                                   FuncEnd(pr))
                     ELSE FuncNode(pr)>>)
    ELSE BuiltNode(pr)

\* the flattened function f inside a flattened Tree(pr)
FlatFunc(pr, result) ==
    IF IsParsed(pr)
    THEN LET top == result.v.body.v[Len(PreambleNodes(pr.preamble)) + 1]
         IN  IF pr.inClass THEN top.v.body.v[1] ELSE top
    ELSE result

ParsedProgs ==
    {pr \in [src : {"parsed"}, cls : DefKinds, inClass : BOOLEAN,
             deco : BOOLEAN, preamble : {"none", "plain", "formfeed"},
             oneliner : BOOLEAN, blank : BOOLEAN,
             body : UNION {[1..n -> StmtKinds] : n \in 1..MaxStmts}] :
        /\ pr.oneliner => (pr.body = <<"simple">> /\ ~pr.blank)
        /\ pr.blank => Len(pr.body) > 1}

BuiltProgs ==
    {pr \in [src : {"built"}, cls : DefKinds, nlines : 0..MaxLine,
             stmts : 0..1, lineno : -1..(MaxLine + 1),
             end_lineno : -2..(MaxLine + 1)] :
        pr.stmts = 0 => (pr.lineno = -1 /\ pr.end_lineno = -1)}

-----------------------------------------------------------------------------
(* Idle values of the variables a specification does not use *)

FlatIdle == prog = PyNone /\ flat = PyNone /\ fpc = "idle"
ExtrIdle == mfile = PyNone /\ mout = PyNone /\ mpc = "idle"
PipeIdle == /\ fs = <<>> /\ seen = <<>> /\ last = PyNone
            /\ req = PyNone /\ parser = "idle"
            /\ class_level_vars = <<>> /\ class_level_choices_vars = <<>>
ManageIdle == job = PyNone /\ reply = PyNone
AppsIdle == cwd = PyNone /\ dirs = <<>> /\ workers = <<>>
ChatIdle == messages = <<>> /\ invocations = <<>> /\ chats = <<>>
ModifyIdle == disk = <<>> /\ answer = PyNone
OpsIdle == ManageIdle /\ AppsIdle /\ ChatIdle /\ ModifyIdle

-----------------------------------------------------------------------------
(* Specification of the flattener *)

InitFlat ==
    /\ \/ prog \in ParsedProgs
       \/ prog \in BuiltProgs
    /\ flat = PyNone
    /\ fpc = "input"
    /\ ExtrIdle /\ PipeIdle /\ OpsIdle

\* _ast_to_dict(tree, source_code) of src/parsing.py
FlattenRoot ==
    /\ fpc = "input"
    /\ flat' = _ast_to_dict(Tree(prog), Source(prog))
    /\ fpc' = "root"
    /\ UNCHANGED <<prog, extrVars, pipeVars, opsVars>>

\* _ast_to_dict(tree, source_code) of src/server/parsing.py
FlattenServer ==
    /\ fpc = "input"
    /\ flat' = server_ast_to_dict(Tree(prog), Source(prog))
    /\ fpc' = "server"
    /\ UNCHANGED <<prog, extrVars, pipeVars, opsVars>>

NextFlat == FlattenRoot \/ FlattenServer

SpecFlat == InitFlat /\ [][NextFlat]_vars

-----------------------------------------------------------------------------
(* Properties of the flattener *)

Flattened == fpc \in {"root", "server"}

\* the value of key k of a flattened node, None when the key is missing
Key(d, k) == Get(d, k, PyNone)

\* the span the code computes for a hand-built node, and its validity as the
\* claim words it
StartIdx(pr) == pr.lineno - 1
EndIdx(pr) == IF pr.end_lineno = -1 THEN pr.lineno ELSE pr.end_lineno
SpanComputed(pr) == pr.stmts = 1 /\ pr.lineno >= 0 /\ pr.end_lineno # -2
SpanInvalid(pr) ==
    \/ StartIdx(pr) < 0
    \/ StartIdx(pr) >= pr.nlines
    \/ EndIdx(pr) <= StartIdx(pr)
    \/ EndIdx(pr) > pr.nlines
EmptyOrInvalid(pr) ==
    /\ ~IsParsed(pr)
    /\ pr.stmts = 0 \/ (SpanComputed(pr) /\ SpanInvalid(pr))

\* C5: when the body is empty or the computed line span is invalid (start
\* index negative or past the last line, end not after start, end past the
\* last line), body_source is exactly the empty string and the flattener
\* still returns a node.
C5_EmptyBodySource ==
    (Flattened /\ EmptyOrInvalid(prog)) =>
        /\ flat.t = "dict"
        /\ Key(flat, "body_source") = PyStr(<<>>)

\* a span whose start is a real line and whose end lies past the last line
\* has been flattened
C5_Witness ==
    /\ fpc = "root" /\ ~IsParsed(prog) /\ SpanComputed(prog)
    /\ StartIdx(prog) >= 0 /\ StartIdx(prog) < prog.nlines
    /\ EndIdx(prog) > prog.nlines
    /\ Key(flat, "body_source") = PyStr(<<>>)

\* the source lines holding the body statements of f, from the first line of
\* the first statement to the last line of the last one, trimmed
ExpectedBody(pr) ==
    IF pr.oneliner
    THEN Strip(FuncLines(pr)[Len(FuncLines(pr))])
    ELSE Strip(Join(BodyRender(pr).lines))

\* C6: for a function definition (sync or async) with a non-empty body, the
\* trimmed raw body text equals the source text from the first body statement
\* to the last body statement inclusive.
C6_BodySourceIsTheStatements ==
    (fpc = "root" /\ IsParsed(prog)) =>
        Strip(Key(FlatFunc(prog, flat), "body_source").v) = ExpectedBody(prog)

\* every flattened node is tagged with the class name of the node it came from
RECURSIVE TagsMatch(_, _)
TagsMatch(node, d) ==
    IF node.t = "ast" THEN
        /\ d.t = "dict"
        /\ "_nodetype" \in DOMAIN d.v
        /\ d.v["_nodetype"] = S(node.cls)
        /\ \A k \in DOMAIN node.f \cap DOMAIN d.v :
              (k = "body" /\ node.cls \in {"FunctionDef", "AsyncFunctionDef"})
              \/ TagsMatch(node.f[k], d.v[k])
    ELSE IF node.t = "list" THEN
        /\ d.t = "list"
        /\ Len(d.v) = Len(node.v)
        /\ \A i \in 1..Len(node.v) : TagsMatch(node.v[i], d.v[i])
    ELSE TRUE

PositionFields == {"lineno", "col_offset", "end_lineno", "end_col_offset", "ctx"}

RECURSIVE NoPositionFields(_)
NoPositionFields(d) ==
    IF d.t = "dict" THEN
        /\ DOMAIN d.v \cap PositionFields = {}
        /\ \A k \in DOMAIN d.v : NoPositionFields(d.v[k])
    ELSE IF d.t = "list" THEN \A i \in 1..Len(d.v) : NoPositionFields(d.v[i])
    ELSE TRUE

\* C9: every node of a flattened tree, at every depth, carries _nodetype
\* equal to its grammar production name and none carries lineno, col_offset,
\* end_lineno, end_col_offset or ctx.
C9_TaggedAndPositionFree ==
    Flattened => /\ TagsMatch(Tree(prog), flat)
                 /\ NoPositionFields(flat)

\* a decorated method with a defaulted argument, inside a class, was flattened
C9_Witness ==
    /\ fpc = "root" /\ IsParsed(prog) /\ prog.deco /\ prog.inClass
    /\ Key(Key(FlatFunc(prog, flat), "decorator_list").v[1], "id") = S("wrap")
    /\ Key(Key(Key(FlatFunc(prog, flat), "args"), "defaults").v[1], "id")
          = S("dflt")

IsFunctionDict(d) ==
    /\ "_nodetype" \in DOMAIN d.v
    /\ d.v["_nodetype"].t = "str"
    /\ d.v["_nodetype"].v \in {<<"FunctionDef">>, <<"AsyncFunctionDef">>}

RECURSIVE BodiesAreText(_)
BodiesAreText(d) ==
    IF d.t = "dict" THEN
        /\ IsFunctionDict(d) =>
              /\ Key(d, "body_source").t = "str"
              /\ "body" \in DOMAIN d.v => d.v["body"] = PyList(<<>>)
        /\ \A k \in DOMAIN d.v : BodiesAreText(d.v[k])
    ELSE IF d.t = "list" THEN \A i \in 1..Len(d.v) : BodiesAreText(d.v[i])
    ELSE TRUE

\* C10: a flattened FunctionDef or AsyncFunctionDef, at any nesting depth,
\* holds no flattened body statements: its body is one raw source string.
C10_BodyNeverFlattened == Flattened => BodiesAreText(flat)

\* an async method with several statements, nested in a class, was flattened
C10_Witness ==
    /\ Flattened /\ IsParsed(prog) /\ prog.inClass
    /\ prog.cls = "AsyncFunctionDef" /\ Len(prog.body) > 1
    /\ Len(Key(FlatFunc(prog, flat), "body_source").v) > 1

\* the trimmed raw body text of f: the lines of its statements as sliced
\* out of the source
RawBody(pr) == Strip(ExtractBodySource(FuncNode(pr), Source(pr)))

\* the chunks of a text that are not whitespace
Ink(s) == SelectSeq(s, LAMBDA c : c \notin WhitespaceChunks)

\* positions of the chunks of raw, after the first, equal to its first chunk
Closings(raw) == {j \in 2..Len(raw) : raw[j] = raw[1]}

\* What the split does with the text: when the trimmed raw body text starts
\* with a triple quote and the same quote occurs again, docstring is the
\* trimmed text up to its first further occurrence and body_source the
\* trimmed text after it; otherwise there is no docstring key and body_source
\* is the whole trimmed raw body text.
SplitAtFirstClosing ==
    (fpc = "server" /\ IsParsed(prog)) =>
        LET raw == RawBody(prog)
            d == FlatFunc(prog, flat)
        IN  IF raw # <<>> /\ raw[1] \in TripleQuotes /\ Closings(raw) # {}
            THEN LET j == CHOOSE j \in Closings(raw) :
                              \A k \in Closings(raw) : j <= k
                 IN  /\ Key(d, "docstring") = PyStr(Strip(SubSeq(raw, 2, j - 1)))
                     /\ Key(d, "body_source")
                           = PyStr(Strip(SubSeq(raw, j + 1, Len(raw))))
                     /\ Ink(raw) = <<raw[1]>> \o Ink(Key(d, "docstring").v)
                                   \o <<raw[1]>> \o Ink(Key(d, "body_source").v)
            ELSE /\ "docstring" \notin DOMAIN d.v
                 /\ Key(d, "body_source") = PyStr(raw)
                 /\ Ink(raw) = Ink(Key(d, "body_source").v)

\* the source text between the quotes of a docstring statement
DocText(kind) ==
    CASE kind = "doc" -> <<"Doc">>
      [] kind = "doc_single" -> <<"Doc", " ", "\"\"\"">>
      [] kind = "doc_escaped" -> <<"a", " ", "\\", "\"\"\"", " ", "b">>
      [] OTHER -> <<>>

\* the source lines of the body statements of f after the first one
RestOfBody(pr) ==
    Strip(Join(Tail(BodyRender(pr).lines)))

\* C23: in the docstring-splitting flattener, when the trimmed raw body text
\* starts with a triple-quoted string literal, docstring is the trimmed text
\* between the quotes of the literal and body_source is the trimmed remainder
\* after its closing quotes: docstring and body_source together account for
\* all body statements.
C23_DocstringIsTheLiteral ==
    (/\ fpc = "server" /\ IsParsed(prog) /\ ~prog.oneliner
     /\ RawBody(prog) # <<>> /\ RawBody(prog)[1] \in TripleQuotes) =>
        /\ Key(FlatFunc(prog, flat), "docstring")
              = PyStr(Strip(DocText(prog.body[1])))
        /\ Key(FlatFunc(prog, flat), "body_source") = PyStr(RestOfBody(prog))

-----------------------------------------------------------------------------
(* The model extractor, src/server/transformation/transform_models.py *)

EmptyDict == PyDict(NoFields)
NoVars == [k \in {} |-> PyNone]

\* node.get("_nodetype") == typ
Is(node, typ) == node.t = "dict" /\ IsStr(NodeType(node), <<typ>>)

\* an exception leaving the extractor
Raise(exc) == [t |-> "raise", v |-> exc]

\* the text an f-string puts for a value
Fmt(x) == IF x.t = "str" THEN x.v ELSE <<"None">>

\* lines 13-17: the positional arguments that are names or constants
RECURSIVE FieldArgs(_)
FieldArgs(arg_nodes) ==
    IF arg_nodes = <<>> THEN <<>>
    ELSE LET arg_node == Head(arg_nodes)
         IN  (IF Is(arg_node, "Name") THEN <<Key(arg_node, "id")>>
              ELSE IF Is(arg_node, "Constant") THEN <<Key(arg_node, "value")>>
              ELSE <<>>)
             \o FieldArgs(Tail(arg_nodes))

\* lines 22-29: the decoded value of one keyword argument
KwargValue(kwarg_val_node) ==
    IF ~Truthy(kwarg_val_node) THEN PyNone
    ELSE IF Is(kwarg_val_node, "Constant") THEN Key(kwarg_val_node, "value")
    ELSE IF Is(kwarg_val_node, "Name") THEN Key(kwarg_val_node, "id")
    ELSE IF Is(kwarg_val_node, "Attribute")
    THEN PyStr(Fmt(Key(Get(kwarg_val_node, "value", EmptyDict), "id"))
               \o <<".">> \o Fmt(Key(kwarg_val_node, "attr")))
    ELSE PyNone

\* ResolveChoices that never looks an identifier up
ResolveChoices_NoLookup(parsed_choices_tuples, clv) ==
    [i \in 1..Len(parsed_choices_tuples) |->
        PyTuple(<<parsed_choices_tuples[i].v[1], parsed_choices_tuples[i].v[2]>>)]

\* lines 32-41: the pairs of a remembered choices list, constants substituted
ResolveChoices(parsed_choices_tuples, clv) ==
    [i \in 1..Len(parsed_choices_tuples) |->
        LET const_name == parsed_choices_tuples[i].v[1]
            human_readable == parsed_choices_tuples[i].v[2]
        IN  IF const_name.t = "str" /\ const_name.v \in DOMAIN clv
            THEN PyTuple(<<clv[const_name.v], human_readable>>)
            ELSE PyTuple(<<const_name, human_readable>>)]

\* lines 19-44: the loop over the keywords; acc is [kwargs, choices]
RECURSIVE FieldKwargs(_, _, _, _)
FieldKwargs(kwarg_nodes, acc, clv, clcv) ==
    IF kwarg_nodes = <<>> THEN acc
    ELSE
      LET kwarg_node == Head(kwarg_nodes)
          kwarg_name == Key(kwarg_node, "arg")
          kwarg_value == KwargValue(Key(kwarg_node, "value"))
          next ==
            IF /\ IsStr(kwarg_name, <<"choices">>)
               /\ kwarg_value.t = "str"
               /\ kwarg_value.v \in DOMAIN clcv
            THEN [acc EXCEPT !.choices =
                      PyList(ResolveChoices(clcv[kwarg_value.v], clv))]
            ELSE IF Truthy(kwarg_name) /\ kwarg_value.t # "none"
                 THEN [acc EXCEPT !.kwargs = (kwarg_name.v :> kwarg_value) @@ @]
                 ELSE acc
      IN  FieldKwargs(Tail(kwarg_nodes), next, clv, clcv)

\* the field record with the choices key written whatever was resolved
parse_model_field_AlwaysChoices(value_node, target_name, clv, clcv) ==
    LET field_type == PyStr(<<"models.">> \o Fmt(value_node.v.func.v.attr))
        field_args == FieldArgs(Get(value_node, "args", PyList(<<>>)).v)
        kw == FieldKwargs(Get(value_node, "keywords", PyList(<<>>)).v,
                          [kwargs |-> NoVars, choices |-> PyNone], clv, clcv)
        field_data == [name |-> target_name, type |-> field_type,
                       args |-> PyList(field_args), kwargs |-> PyDict(kw.kwargs)]
    IN  PyDict(field_data @@ [choices |-> kw.choices])

\* lines 4-55
parse_model_field(value_node, target_name, clv, clcv) ==
    LET field_type == PyStr(<<"models.">> \o Fmt(value_node.v.func.v.attr))
        field_args == FieldArgs(Get(value_node, "args", PyList(<<>>)).v)
        kw == FieldKwargs(Get(value_node, "keywords", PyList(<<>>)).v,
                          [kwargs |-> NoVars, choices |-> PyNone], clv, clcv)
        field_data == [name |-> target_name, type |-> field_type,
                       args |-> PyList(field_args), kwargs |-> PyDict(kw.kwargs)]
    IN  IF kw.choices.t # "none"
        THEN PyDict(field_data @@ [choices |-> kw.choices])
        ELSE PyDict(field_data)

\* str.endswith("_CHOICES")
EndsWithChoices(name) == name # <<>> /\ name[Len(name)] = "_CHOICES"

\* lines 68-81: the (identifier, label) pairs of a choices list literal
RECURSIVE ChoicesList(_)
ChoicesList(elts) ==
    IF elts = <<>> THEN <<>>
    ELSE LET elt_tuple == Head(elts)
             sub == Get(elt_tuple, "elts", PyList(<<>>)).v
         IN  (IF /\ Is(elt_tuple, "Tuple") /\ Len(sub) = 2
                 /\ Is(sub[1], "Name") /\ Is(sub[2], "Constant")
              THEN <<PyTuple(<<Key(sub[1], "id"), Key(sub[2], "value")>>)>>
              ELSE <<>>)
             \o ChoicesList(Tail(elts))

\* lines 58-82; returns the two maps as updated
parse_class_level_variable(target_name, value_node, clv, clcv) ==
    IF Is(value_node, "Constant") /\ Key(value_node, "value").t = "str"
    THEN [clv |-> (target_name.v :> Key(value_node, "value")) @@ clv,
          clcv |-> clcv]
    ELSE IF EndsWithChoices(target_name.v) /\ Is(value_node, "List")
    THEN [clv |-> clv,
          clcv |-> (target_name.v :>
                       ChoicesList(Get(value_node, "elts", PyList(<<>>)).v))
                   @@ clcv]
    ELSE [clv |-> clv, clcv |-> clcv]

\* IsPropertyDecorated that takes any decorator for @property
IsPropertyDecorated_AnyDecorator(item) ==
    Len(Get(item, "decorator_list", PyList(<<>>)).v) > 0

\* lines 88-91
IsPropertyDecorated(item) ==
    \E i \in 1..Len(Get(item, "decorator_list", PyList(<<>>)).v) :
        LET decorator == Get(item, "decorator_list", PyList(<<>>)).v[i]
        IN  Is(decorator, "Name") /\ IsStr(Key(decorator, "id"), <<"property">>)

\* the names of a flattened list of ast.arg nodes
ArgNames(lst) == PyList([i \in 1..Len(lst.v) |-> Key(lst.v[i], "arg")])
ArgName(a) == IF a.t = "dict" THEN Key(a, "arg") ELSE PyNone

\* .utils.extract_function_info: name, argument descriptor, raw body text
\* and docstring of a flattened function definition
extract_function_info(item) ==
    LET a == Key(item, "args")
    IN  [name |-> Key(item, "name"),
         args |-> [positional_only |-> ArgNames(Key(a, "posonlyargs")),
                   regular_args |-> ArgNames(Key(a, "args")),
                   keyword_only |-> ArgNames(Key(a, "kwonlyargs")),
                   defaults |-> Key(a, "defaults"),
                   vararg |-> ArgName(Key(a, "vararg")),
                   kwarg |-> ArgName(Key(a, "kwarg"))],
         body_source |-> Get(item, "body_source", PyStr(<<>>)),
         docstring |-> Key(item, "docstring")]

\* lines 85-115
parse_method_or_property(item) ==
    IF IsPropertyDecorated(item)
    THEN [method_name |-> Key(item, "name"),
          method_args |-> PyList(<<>>),
          method_body |-> PyStr(Strip(Get(item, "body_source", PyStr(<<>>)).v)),
          is_property |-> TRUE,
          docstring |-> PyStr(Strip(Get(item, "docstring", PyStr(<<>>)).v))]
    ELSE LET func_info == extract_function_info(item)
         IN  [method_name |-> func_info.name,
              method_args |-> PyDict(func_info.args),
              method_body |-> func_info.body_source,
              is_property |-> FALSE,
              docstring |-> func_info.docstring]

\* lines 127-134: the decoded value of one Meta attribute
MetaValue(node) ==
    IF ~Truthy(node) THEN PyNone
    ELSE IF Is(node, "List")
    THEN LET elts == Get(node, "elts", PyList(<<>>)).v
             consts == SelectSeq(elts, LAMBDA elt : Is(elt, "Constant"))
         IN  PyList([i \in 1..Len(consts) |-> Key(consts[i], "value")])
    ELSE IF Is(node, "Constant") THEN Key(node, "value")
    ELSE PyNone

\* lines 118-138
RECURSIVE MetaLoop(_, _)
MetaLoop(items, meta_info) ==
    IF items = <<>> THEN meta_info
    ELSE
      LET meta_item == Head(items)
          meta_attr_name ==
              Key(Get(meta_item, "targets", PyList(<<EmptyDict>>)).v[1], "id")
          meta_attr_value == MetaValue(Key(meta_item, "value"))
      IN  MetaLoop(Tail(items),
              IF /\ Is(meta_item, "Assign")
                 /\ Truthy(meta_attr_name) /\ meta_attr_value.t # "none"
              THEN (meta_attr_name.v :> meta_attr_value) @@ meta_info
              ELSE meta_info)

parse_meta_class(item) == MetaLoop(Get(item, "body", PyList(<<>>)).v, NoVars)


\* is_django_model that does not look at the attribute name
is_django_model_AnyAttr(dec) ==
    \E i \in 1..Len(Get(dec, "bases", PyList(<<>>)).v) :
        LET base == Get(dec, "bases", PyList(<<>>)).v[i]
        IN  /\ Is(base, "Attribute")
            /\ IsStr(Key(Get(base, "value", EmptyDict), "id"), <<"models">>)

\* lines 152-159
is_django_model(dec) ==
    \E i \in 1..Len(Get(dec, "bases", PyList(<<>>)).v) :
        LET base == Get(dec, "bases", PyList(<<>>)).v[i]
        IN  /\ Is(base, "Attribute")
            /\ IsStr(Key(Get(base, "value", EmptyDict), "id"), <<"models">>)
            /\ IsStr(Key(base, "attr"), <<"Model">>)

\* lines 176-180: the class docstring; str.strip() exists on str only
ClassDocstring(dec) ==
    LET body == Key(dec, "body")
    IN  IF Truthy(body) /\ Is(body.v[1], "Expr")
        THEN LET docstring_node == Key(body.v[1], "value")
             IN  IF Truthy(docstring_node) /\ Is(docstring_node, "Constant")
                 THEN LET value == Get(docstring_node, "value", PyStr(<<>>))
                      IN  IF value.t = "str" THEN PyStr(Strip(value.v))
                          ELSE Raise("AttributeError")
                 ELSE PyNone
        ELSE PyNone

\* is_model_field that takes any call of an attribute for a field
is_model_field_AnyRoot(value_node) ==
    /\ Truthy(value_node)
    /\ Is(value_node, "Call")
    /\ Is(Get(value_node, "func", EmptyDict), "Attribute")

\* lines 190-196
is_model_field(value_node) ==
    /\ Truthy(value_node)
    /\ Is(value_node, "Call")
    /\ Is(Get(value_node, "func", EmptyDict), "Attribute")
    /\ IsStr(Key(Get(Get(value_node, "func", EmptyDict), "value", EmptyDict),
                 "id"), <<"models">>)

\* lines 183-238: one statement of the class body; st holds the lists of
\* model_info and the two maps of class-level names
ClassItem(item, st) ==
    IF Is(item, "Assign") THEN
        LET target_node == Get(item, "targets", PyList(<<EmptyDict>>)).v[1]
        IN  IF Is(target_node, "Name") THEN
              LET target_name == Key(target_node, "id")
                  value_node == Key(item, "value")
              IN  IF is_model_field(value_node)
                  THEN [st EXCEPT !.fields =
                           Append(@, parse_model_field(value_node, target_name,
                                                       st.clv, st.clcv))]
                  ELSE LET r == parse_class_level_variable(
                                    target_name, value_node, st.clv, st.clcv)
                       IN  [st EXCEPT !.clv = r.clv, !.clcv = r.clcv]
            ELSE st
    ELSE IF Is(item, "FunctionDef") THEN
        LET m == parse_method_or_property(item)
        IN  IF m.is_property
            THEN [st EXCEPT !.properties =
                     Append(@, PyDict([name |-> m.method_name,
                                       body |-> m.method_body,
                                       docstring |-> m.docstring]))]
            ELSE [st EXCEPT !.methods =
                     Append(@, PyDict([name |-> m.method_name,
                                       body |-> m.method_body,
                                       docstring |-> m.docstring,
                                       args |-> m.method_args]))]
    ELSE IF Is(item, "ClassDef") /\ IsStr(Key(item, "name"), <<"Meta">>)
    THEN [st EXCEPT !.meta = parse_meta_class(item)]
    ELSE st

RECURSIVE ClassBody(_, _)
ClassBody(items, st) ==
    IF items = <<>> THEN st ELSE ClassBody(Tail(items), ClassItem(Head(items), st))

\* the map of class-level names left by the class transformed before
FreshClassLevelVars_Stale == class_level_vars

\* lines 173-174: the maps of class-level names a class starts with
FreshClassLevelVars == NoVars
FreshClassLevelChoicesVars == NoVars

\* the strings a class starts with are those the previous class left
StartVars_Carried(prev) == prev.clv

\* lines 173-174 inside the loop of line 146: each class starts with new
\* maps, whatever the run so far (prev) has left in them
StartVars(prev) == FreshClassLevelVars
StartChoicesVars(prev) == FreshClassLevelChoicesVars

\* lines 164-171, 240: model_info as filled from the docstring and from the
\* state st the walk over the class body ends in, with the maps it leaves
ModelRecord(dec, docstring, st) ==
    [exc |-> docstring.t = "raise",
     clv |-> st.clv, clcv |-> st.clcv,
     info |-> PyDict([name |-> Key(dec, "name"),
                      docstring |-> docstring,
                      fields |-> PyList(st.fields),
                      methods |-> PyList(st.methods),
                      properties |-> PyList(st.properties),
                      meta |-> PyDict(st.meta)])]

\* lines 164-240: the record of one model class
ModelInfo(dec, prev) ==
    ModelRecord(dec, ClassDocstring(dec),
                ClassBody(Get(dec, "body", PyList(<<>>)).v,
                          [fields |-> <<>>, methods |-> <<>>,
                           properties |-> <<>>, meta |-> NoVars,
                           clv |-> StartVars(prev),
                           clcv |-> StartChoicesVars(prev)]))

\* line 240: models.append(model_info), unless the class raised
AppendModel(acc, m) ==
    [exc |-> m.exc, clv |-> m.clv, clcv |-> m.clcv,
     models |-> IF m.exc THEN acc.models ELSE Append(acc.models, m.info)]

\* lines 146-240: the loop over the declarations; it stops at an exception
RECURSIVE ModelsLoop(_, _)
ModelsLoop(declarations, acc) ==
    IF declarations = <<>> \/ acc.exc THEN acc
    ELSE IF ~Is(Head(declarations), "ClassDef")
            \/ ~is_django_model(Head(declarations))
    THEN ModelsLoop(Tail(declarations), acc)
    ELSE ModelsLoop(Tail(declarations),
                    AppendModel(acc, ModelInfo(Head(declarations), acc)))

\* the run of transform_models_py: its output list, the maps of the last
\* class it worked on, and whether it raised
TransformRun(models_py_ast) ==
    ModelsLoop(Get(models_py_ast, "ast_declarations", PyList(<<>>)).v,
               [exc |-> FALSE, clv |-> NoVars, clcv |-> NoVars,
                models |-> <<>>])

\* line 242: what a run returns, or the exception that ended it
RunOutput(r) ==
    IF r.exc THEN Raise("AttributeError")
    ELSE PyDict([models |-> PyList(r.models)])

\* lines 141-242
transform_models_py(models_py_ast) == RunOutput(TransformRun(models_py_ast))

-----------------------------------------------------------------------------
(* Inputs of the extractor: models.py files, as a list of top-level         *)
(* declarations, each with the statements of its body.                       *)

MemberItems == {"field_plain", "nonfield", "deepfield", "prop", "setter",
                "method", "async", "doc", "intexpr", "meta"}
ChoiceItems == {"constA", "constA2", "constI", "choices", "field_choices",
                "field_plain"}

MetaItems == {"meta", "meta_false", "meta_none", "meta_listnone",
              "meta_tuple", "meta_attr_target"}

\* the one statement of the body of each Meta class
MetaText(kind) ==
    CASE kind = "meta" -> "ordering = [\"name\"]"
      [] kind = "meta_false" -> "abstract = False"
      [] kind = "meta_none" -> "verbose_name = None"
      [] kind = "meta_listnone" -> "ordering = [\"a\", None]"
      [] kind = "meta_tuple" -> "unique_together = (\"a\", \"b\")"
      [] kind = "meta_attr_target" -> "x.y = 1"

StatusChoices == <<"STATUS", "_CHOICES">>

\* field declarations and other statements whose sub-structure varies
KwConstItems == {"kw_true", "kw_zero", "kw_empty", "kw_false", "kw_none"}
KwItems == KwConstItems \cup {"kw_list", "kw_attr", "kw_deep", "kw_star"}
ArgItems == {"arg_const", "arg_name", "arg_attr", "arg_call", "arg_concat",
             "arg_mixed"}
TargetItems == {"multi_target", "attr_target", "noneexpr"}
ShapeItems == KwItems \cup ArgItems \cup TargetItems

\* the text of such a statement
ShapeText(kind) ==
    CASE kind = "kw_true" -> "f = models.CharField(null=True)"
      [] kind = "kw_zero" -> "f = models.IntegerField(default=0)"
      [] kind = "kw_empty" -> "f = models.CharField(default=\"\")"
      [] kind = "kw_false" -> "f = models.BooleanField(default=False)"
      [] kind = "kw_none" -> "f = models.CharField(default=None)"
      [] kind = "kw_list" -> "f = models.CharField(validators=[check, 3])"
      [] kind = "kw_attr" -> "f = models.ForeignKey(on_delete=models.CASCADE)"
      [] kind = "kw_deep" -> "f = models.ForeignKey(on_delete=a.b.c)"
      [] kind = "kw_star" -> "f = models.CharField(**opts)"
      [] kind = "arg_const" -> "f = models.CharField(\"label\")"
      [] kind = "arg_name" -> "f = models.ForeignKey(User)"
      [] kind = "arg_attr" -> "f = models.ForeignKey(settings.AUTH_USER_MODEL)"
      [] kind = "arg_call" -> "f = models.ForeignKey(get_user_model())"
      [] kind = "arg_concat" -> "f = models.ForeignKey(\"app.\" + \"User\")"
      [] kind = "arg_mixed" ->
            "f = models.ForeignKey(User, settings.AUTH_USER_MODEL, 5)"
      [] kind = "multi_target" -> "f = g = models.CharField()"
      [] kind = "attr_target" -> "self.f = models.CharField()"
      [] kind = "noneexpr" -> "None"

\* the source lines of a class body statement at depth d
ItemLines(kind, d) ==
    CASE kind = "constA" -> <<Indent(d) \o <<"ACTIVE = \"A\"", "\n">>>>
      [] kind = "constA2" -> <<Indent(d) \o <<"ACTIVE = \"B\"", "\n">>>>
      [] kind = "constI" -> <<Indent(d) \o <<"INACTIVE = \"I\"", "\n">>>>
      [] kind = "choices" ->
            <<Indent(d) \o <<"STATUS_CHOICES = [(ACTIVE, \"Active\"), (INACTIVE, \"Inactive\")]", "\n">>>>
      [] kind = "field_choices" ->
            <<Indent(d) \o <<"status = models.CharField(max_length=20, choices=STATUS_CHOICES)", "\n">>>>
      [] kind = "field_plain" ->
            <<Indent(d) \o <<"email = models.EmailField()", "\n">>>>
      [] kind = "nonfield" ->
            <<Indent(d) \o <<"objects = managers.Manager()", "\n">>>>
      [] kind = "deepfield" ->
            <<Indent(d) \o <<"geo = models.fields.PointField()", "\n">>>>
      [] kind = "prop" -> <<Indent(d) \o <<"@property", "\n">>,
                            Indent(d) \o <<"def x(self):", "\n">>,
                            Indent(d + 1) \o <<"return 1", "\n">>>>
      [] kind = "setter" -> <<Indent(d) \o <<"@x.setter", "\n">>,
                              Indent(d) \o <<"def x(self, v):", "\n">>,
                              Indent(d + 1) \o <<"pass", "\n">>>>
      [] kind = "method" -> <<Indent(d) \o <<"def save(self):", "\n">>,
                              Indent(d + 1) \o <<"return 1", "\n">>>>
      [] kind = "async" -> <<Indent(d) \o <<"async def g(self):", "\n">>,
                             Indent(d + 1) \o <<"return 1", "\n">>>>
      [] kind = "doc" -> <<Indent(d) \o <<"\"\"\"", "Doc.", "\"\"\"", "\n">>>>
      [] kind = "intexpr" -> <<Indent(d) \o <<"1", "\n">>>>
      [] kind \in MetaItems -> <<Indent(d) \o <<"class Meta:", "\n">>,
                                 Indent(d + 1) \o <<MetaText(kind), "\n">>>>
      [] kind = "pass" -> <<Indent(d) \o <<"pass", "\n">>>>
      [] kind \in ShapeItems -> <<Indent(d) \o <<ShapeText(kind), "\n">>>>

ModelsAttr(attr, l) == Attribute(Name(<<"models">>, Load, l), attr, l)
AssignName(id, value, l) == Assign(<<Name(id, Store, l)>>, value, l, l)

MetaStmt(kind, l) ==
    CASE kind = "meta" ->
            AssignName(<<"ordering">>, ListNode(<<Constant(S("name"), l)>>, l), l)
      [] kind = "meta_false" ->
            AssignName(<<"abstract">>, Constant(PyBool(FALSE), l), l)
      [] kind = "meta_none" ->
            AssignName(<<"verbose_name">>, Constant(PyNone, l), l)
      [] kind = "meta_listnone" ->
            AssignName(<<"ordering">>,
                ListNode(<<Constant(S("a"), l), Constant(PyNone, l)>>, l), l)
      [] kind = "meta_tuple" ->
            AssignName(<<"unique_together">>,
                TupleNode(<<Constant(S("a"), l), Constant(S("b"), l)>>, l), l)
      [] kind = "meta_attr_target" ->
            Assign(<<Attribute(Name(<<"x">>, Load, l), "y", l)>>,
                   Constant(PyInt(1), l), l, l)

Method(cls, name, argnames, decorators, stmt, l, e) ==
    FunctionDef(cls, name,
                arguments([i \in 1..Len(argnames) |-> arg(argnames[i], l)], <<>>),
                <<stmt>>, decorators, l, e)

BinOp(left, op, right, l) ==
    Ast("BinOp", [left |-> left, op |-> Ast(op, NoFields, NoAttrs),
                  right |-> right], Pos(l, l))

\* the positional arguments ast.parse builds for a field call of kind
ShapeArgs(kind, l) ==
    CASE kind = "arg_const" -> <<Constant(S("label"), l)>>
      [] kind = "arg_name" -> <<Name(<<"User">>, Load, l)>>
      [] kind = "arg_attr" ->
            <<Attribute(Name(<<"settings">>, Load, l), "AUTH_USER_MODEL", l)>>
      [] kind = "arg_call" ->
            <<Call(Name(<<"get_user_model">>, Load, l), <<>>, <<>>, l)>>
      [] kind = "arg_concat" ->
            <<BinOp(Constant(S("app."), l), "Add", Constant(S("User"), l), l)>>
      [] kind = "arg_mixed" ->
            <<Name(<<"User">>, Load, l),
              Attribute(Name(<<"settings">>, Load, l), "AUTH_USER_MODEL", l),
              Constant(PyInt(5), l)>>
      [] OTHER -> <<>>

\* the keywords ast.parse builds for a field call of kind
ShapeKeywords(kind, l) ==
    CASE kind = "kw_true" -> <<keyword(S("null"), Constant(PyBool(TRUE), l), l)>>
      [] kind = "kw_zero" -> <<keyword(S("default"), Constant(PyInt(0), l), l)>>
      [] kind = "kw_empty" ->
            <<keyword(S("default"), Constant(PyStr(<<>>), l), l)>>
      [] kind = "kw_false" ->
            <<keyword(S("default"), Constant(PyBool(FALSE), l), l)>>
      [] kind = "kw_none" -> <<keyword(S("default"), Constant(PyNone, l), l)>>
      [] kind = "kw_list" ->
            <<keyword(S("validators"),
                      ListNode(<<Name(<<"check">>, Load, l),
                                 Constant(PyInt(3), l)>>, l), l)>>
      [] kind = "kw_attr" ->
            <<keyword(S("on_delete"), ModelsAttr("CASCADE", l), l)>>
      [] kind = "kw_deep" ->
            <<keyword(S("on_delete"),
                      Attribute(Attribute(Name(<<"a">>, Load, l), "b", l),
                                "c", l), l)>>
      [] kind = "kw_star" -> <<keyword(PyNone, Name(<<"opts">>, Load, l), l)>>
      [] OTHER -> <<>>

\* the field type a statement of kind calls
ShapeType(kind) ==
    CASE kind \in {"kw_zero"} -> "IntegerField"
      [] kind \in {"kw_false"} -> "BooleanField"
      [] kind \in {"kw_attr", "kw_deep", "arg_name", "arg_attr", "arg_call",
                   "arg_concat", "arg_mixed"} -> "ForeignKey"
      [] OTHER -> "CharField"

\* the targets of a statement of kind
ShapeTargets(kind, l) ==
    CASE kind = "multi_target" ->
            <<Name(<<"f">>, Store, l), Name(<<"g">>, Store, l)>>
      [] kind = "attr_target" ->
            <<Ast("Attribute", [value |-> Name(<<"self">>, Load, l),
                                attr |-> S("f"), ctx |-> Store], Pos(l, l))>>
      [] OTHER -> <<Name(<<"f">>, Store, l)>>

\* the node ast.parse builds for a statement of ShapeItems on line l
ShapeNode(kind, l) ==
    IF kind = "noneexpr" THEN Expr(Constant(PyNone, l), l, l)
    ELSE Assign(ShapeTargets(kind, l),
                Call(ModelsAttr(ShapeType(kind), l), ShapeArgs(kind, l),
                     ShapeKeywords(kind, l), l), l, l)

\* the node ast.parse builds for a class body statement starting on line l
ItemNode(kind, l) ==
    CASE kind = "constA" -> AssignName(<<"ACTIVE">>, Constant(S("A"), l), l)
      [] kind = "constA2" -> AssignName(<<"ACTIVE">>, Constant(S("B"), l), l)
      [] kind = "constI" -> AssignName(<<"INACTIVE">>, Constant(S("I"), l), l)
      [] kind = "choices" ->
            AssignName(StatusChoices,
                ListNode(<<TupleNode(<<Name(<<"ACTIVE">>, Load, l),
                                       Constant(S("Active"), l)>>, l),
                           TupleNode(<<Name(<<"INACTIVE">>, Load, l),
                                       Constant(S("Inactive"), l)>>, l)>>, l), l)
      [] kind = "field_choices" ->
            AssignName(<<"status">>,
                Call(ModelsAttr("CharField", l), <<>>,
                     <<keyword(S("max_length"), Constant(PyInt(20), l), l),
                       keyword(S("choices"), Name(StatusChoices, Load, l), l)>>,
                     l), l)
      [] kind = "field_plain" ->
            AssignName(<<"email">>,
                       Call(ModelsAttr("EmailField", l), <<>>, <<>>, l), l)
      [] kind = "nonfield" ->
            AssignName(<<"objects">>,
                Call(Attribute(Name(<<"managers">>, Load, l), "Manager", l),
                     <<>>, <<>>, l), l)
      [] kind = "deepfield" ->
            AssignName(<<"geo">>,
                Call(Attribute(ModelsAttr("fields", l), "PointField", l),
                     <<>>, <<>>, l), l)
      [] kind = "prop" ->
            Method("FunctionDef", "x", <<"self">>,
                   <<Name(<<"property">>, Load, l)>>,
                   Return(Constant(PyInt(1), l + 2), l + 2), l + 1, l + 2)
      [] kind = "setter" ->
            Method("FunctionDef", "x", <<"self", "v">>,
                   <<Attribute(Name(<<"x">>, Load, l), "setter", l)>>,
                   Pass(l + 2), l + 1, l + 2)
      [] kind = "method" ->
            Method("FunctionDef", "save", <<"self">>, <<>>,
                   Return(Constant(PyInt(1), l + 1), l + 1), l, l + 1)
      [] kind = "async" ->
            Method("AsyncFunctionDef", "g", <<"self">>, <<>>,
                   Return(Constant(PyInt(1), l + 1), l + 1), l, l + 1)
      [] kind = "doc" -> Expr(Constant(S("Doc."), l), l, l)
      [] kind = "intexpr" -> Expr(Constant(PyInt(1), l), l, l)
      [] kind \in MetaItems ->
            ClassDef("Meta", <<>>, <<MetaStmt(kind, l + 1)>>, l, l + 1)
      [] kind = "pass" -> Pass(l)
      [] kind \in ShapeItems -> ShapeNode(kind, l)

RECURSIVE RenderItems(_, _, _)
RenderItems(kinds, l, d) ==
    IF kinds = <<>> THEN [lines |-> <<>>, nodes |-> <<>>]
    ELSE LET here == ItemLines(Head(kinds), d)
             rest == RenderItems(Tail(kinds), l + Len(here), d)
         IN  [lines |-> here \o rest.lines,
              nodes |-> <<ItemNode(Head(kinds), l)>> \o rest.nodes]

\* the kinds of top-level declaration, by what stands in the base list
ClassKinds == {"model", "mixin", "plain", "named", "pkgmodel", "modelsother",
               "deep"}
DeclKinds == ClassKinds \cup {"func", "assign", "choices_decl"}

\* the classes whose base list contains the attribute access models.Model
ModelKinds == {"model", "mixin"}

Bases(kind, l) ==
    CASE kind = "model" -> <<ModelsAttr("Model", l)>>
      [] kind = "mixin" -> <<Name(<<"Mixin">>, Load, l), ModelsAttr("Model", l)>>
      [] kind = "plain" -> <<>>
      [] kind = "named" -> <<Name(<<"Model">>, Load, l)>>
      [] kind = "pkgmodel" ->
            <<Attribute(Name(<<"db">>, Load, l), "Model", l)>>
      [] kind = "modelsother" -> <<ModelsAttr("Manager", l)>>
      [] kind = "deep" ->
            <<Attribute(Attribute(Name(<<"db">>, Load, l), "models", l),
                        "Model", l)>>

\* the name of the i-th declaration of a file: C, Ci, Cii, ...
DeclName(i) == <<"C">> \o [j \in 1..(i - 1) |-> "i"]

\* a class body as written: an empty list of statements is written `pass`
Written(body) == IF body = <<>> THEN <<"pass">> ELSE body

DeclLines(dec) ==
    CASE dec.kind \in ClassKinds ->
            <<<<"class ", dec.kind, ":", "\n">>>>
            \o RenderItems(Written(dec.body), 0, 1).lines
      [] dec.kind = "func" -> <<<<"def f():", "\n">>, <<"    ", "return 1", "\n">>>>
      [] dec.kind = "assign" -> <<<<"ACTIVE = \"A\"", "\n">>>>
      [] dec.kind = "choices_decl" -> ItemLines("choices", 0)

DeclNode(dec, i, l) ==
    CASE dec.kind \in ClassKinds ->
            Ast("ClassDef",
                [name |-> PyStr(DeclName(i)),
                 bases |-> PyList(Bases(dec.kind, l)),
                 keywords |-> PyList(<<>>),
                 body |-> PyList(RenderItems(Written(dec.body), l + 1, 1).nodes),
                 decorator_list |-> PyList(<<>>)],
                Pos(l, l + Len(DeclLines(dec)) - 1))
      [] dec.kind = "func" ->
            Method("FunctionDef", "f", <<>>, <<>>,
                   Return(Constant(PyInt(1), l + 1), l + 1), l, l + 1)
      [] dec.kind = "assign" -> AssignName(<<"ACTIVE">>, Constant(S("A"), l), l)
      [] dec.kind = "choices_decl" -> ItemNode("choices", l)

RECURSIVE RenderDecls(_, _, _)
RenderDecls(decls, i, l) ==
    IF i > Len(decls) THEN [lines |-> <<>>, nodes |-> <<>>]
    ELSE LET here == DeclLines(decls[i])
             rest == RenderDecls(decls, i + 1, l + Len(here))
         IN  [lines |-> here \o rest.lines,
              nodes |-> <<DeclNode(decls[i], i, l)>> \o rest.nodes]

FileSource(decls) == Join(RenderDecls(decls, 1, 1).lines)
FileTree(decls) == Module(RenderDecls(decls, 1, 1).nodes)

\* src/server/parsing.py:6-14 on a file that holds decls
ServerParse(decls) ==
    LET ast_dict == server_ast_to_dict(FileTree(decls), FileSource(decls))
    IN  PyDict([file_path |-> S("models.py"),
                ast_declarations |-> ast_dict.v.body])

SeqsUpTo(items, n) == UNION {[1..k -> items] : k \in 0..n}

\* files that differ in their declarations
SimpleDecls ==
    [kind : DeclKinds, body : {<<"field_plain">>}]
    \cup [kind : {"model"}, body : {<<"intexpr">>, <<"field_choices">>,
                                     <<"choices", "field_choices">>,
                                     <<"constA">>, <<"choices">>}]
DeclFiles == SeqsUpTo(SimpleDecls, MaxClasses)

\* files of one model class that differ in its body
MemberFiles == {<<[kind |-> "model", body |-> b]>> : b \in SeqsUpTo(MemberItems, MaxBody)}
ChoiceFiles == {<<[kind |-> "model", body |-> b]>> : b \in SeqsUpTo(ChoiceItems, MaxChoiceBody)}
ShapeFiles ==
    {<<[kind |-> "model", body |-> b]>> :
        b \in SeqsUpTo(ShapeItems \cup {"field_plain"}, MaxShapeBody)}

-----------------------------------------------------------------------------
(* Specification of the extractor *)

MetaFiles ==
    {<<[kind |-> "model", body |-> b]>> :
        b \in SeqsUpTo(MetaItems \cup {"field_plain"}, MaxShapeBody)}

InitExtract ==
    /\ \/ mfile \in DeclFiles
       \/ mfile \in MetaFiles
       \/ mfile \in MemberFiles
       \/ mfile \in ChoiceFiles
       \/ mfile \in ShapeFiles
    /\ mout = PyNone
    /\ mpc = "input"
    /\ FlatIdle /\ PipeIdle /\ OpsIdle

\* parse_django_file_ast followed by transform_models_py
ExtractModels ==
    /\ mpc = "input"
    /\ mout' = transform_models_py(ServerParse(mfile))
    /\ mpc' = "done"
    /\ UNCHANGED <<mfile, flatVars, pipeVars, opsVars>>

NextExtract == ExtractModels

SpecExtract == InitExtract /\ [][NextExtract]_vars

-----------------------------------------------------------------------------
(* Properties of the extractor *)

\* the extractor returned (it did not raise)
Returned == mpc = "done" /\ mout.t = "dict"

ModelRecords == mout.v.models.v

\* the declarations of a file that are model classes, with their position
RECURSIVE ModelDecls(_, _)
ModelDecls(decls, i) ==
    IF i > Len(decls) THEN <<>>
    ELSE (IF decls[i].kind \in {"model", "mixin"}
          THEN <<[pos |-> i, body |-> decls[i].body]>> ELSE <<>>)
         \o ModelDecls(decls, i + 1)

OneModel == Returned /\ Len(mfile) = 1 /\ mfile[1].kind = "model"
TheBody == mfile[1].body
TheRecord == ModelRecords[1]

FieldItems == {"field_plain", "field_choices"}
                 \cup (ShapeItems \ {"attr_target", "noneexpr"})
FieldName(kind) == IF kind = "field_plain" THEN S("email")
                   ELSE IF kind = "field_choices" THEN S("status")
                   ELSE S("f")
FieldType(kind) == IF kind = "field_plain"
                   THEN PyStr(<<"models.", "EmailField">>)
                   ELSE IF kind = "field_choices"
                   THEN PyStr(<<"models.", "CharField">>)
                   ELSE PyStr(<<"models.", ShapeType(kind)>>)

\* the number of statements among the first i of a body that are in kinds
RECURSIVE CountIn(_, _, _)
CountIn(body, i, kinds) ==
    IF i = 0 THEN 0
    ELSE CountIn(body, i - 1, kinds) + (IF body[i] \in kinds THEN 1 ELSE 0)

\* the record of the field assigned by statement i
FieldRecordOf(body, i) == Key(TheRecord, "fields").v[CountIn(body, i, FieldItems)]

Names(key) ==
    [k \in 1..Len(Key(TheRecord, key).v) |-> Key(Key(TheRecord, key).v[k], "name")]

FuncItemName(kind) == IF kind = "method" THEN S("save") ELSE S("x")

\* the names of the statements of a body that are in kinds, in order
RECURSIVE ItemNames(_, _)
ItemNames(body, kinds) ==
    IF body = <<>> THEN <<>>
    ELSE (IF Head(body) \in kinds THEN <<FuncItemName(Head(body))>> ELSE <<>>)
         \o ItemNames(Tail(body), kinds)

NamedCount(names, name) == Cardinality({k \in 1..Len(names) : names[k] = name})

ConstValue(kind) ==
    CASE kind = "constA" -> S("A") [] kind = "constA2" -> S("B")
      [] kind = "constI" -> S("I")
ConstItems(id) == IF id = "ACTIVE" THEN {"constA", "constA2"} ELSE {"constI"}

\* what identifier id stands for at statement i: the value most recently
\* assigned to it above i, or the identifier itself
RECURSIVE ValueAbove(_, _, _)
ValueAbove(body, i, id) ==
    IF i = 1 THEN S(id)
    ELSE IF body[i - 1] \in ConstItems(id) THEN ConstValue(body[i - 1])
    ELSE ValueAbove(body, i - 1, id)

\* C2 as stated: a field whose choices keyword names a class-level
\* *_CHOICES list has one resolved pair per tuple, each identifier that names
\* a class-level string constant replaced by that constant's value.
C2_ChoicesResolvedFromClassLevel ==
    OneModel =>
        \A i \in 1..Len(TheBody) :
            (TheBody[i] = "field_choices"
             /\ \E j \in 1..Len(TheBody) : TheBody[j] = "choices") =>
                LET ch == Key(FieldRecordOf(TheBody, i), "choices")
                    val(id) == {S(id)} \cup
                               {ConstValue(TheBody[j]) : j \in
                                  {k \in 1..Len(TheBody) :
                                      TheBody[k] \in ConstItems(id)}}
                    ok(pair, id, label) ==
                        /\ pair.v[2] = S(label)
                        /\ pair.v[1] \in val(id)
                        /\ (pair.v[1] = S(id)) =>
                              ~\E k \in 1..Len(TheBody) :
                                  TheBody[k] \in ConstItems(id)
                IN  /\ ch.t = "list"
                    /\ Len(ch.v) = 2
                    /\ ok(ch.v[1], "ACTIVE", "Active")
                    /\ ok(ch.v[2], "INACTIVE", "Inactive")

\* What the single pass over the class body gives (C2, C18): a field whose choices keyword names a *_CHOICES list assigned
\* above it in the class body has one resolved pair per tuple, in order; each
\* identifier is replaced by the string most recently assigned to it above
\* the field, and kept as-is when no string was assigned to it above the field.
C2_ChoicesResolvedFromAbove ==
    OneModel =>
        \A i \in 1..Len(TheBody) :
            (TheBody[i] = "field_choices"
             /\ \E j \in 1..(i - 1) : TheBody[j] = "choices") =>
                Key(FieldRecordOf(TheBody, i), "choices") =
                    PyList(<<PyTuple(<<ValueAbove(TheBody, i, "ACTIVE"),
                                       S("Active")>>),
                             PyTuple(<<ValueAbove(TheBody, i, "INACTIVE"),
                                       S("Inactive")>>)>>)

\* ACTIVE = "A", INACTIVE = "I", the list, then the field
C2_Witness ==
    /\ OneModel
    /\ TheBody = <<"constA", "constI", "choices", "field_choices">>
    /\ Key(Key(TheRecord, "fields").v[1], "choices") =
          PyList(<<PyTuple(<<S("A"), S("Active")>>),
                   PyTuple(<<S("I"), S("Inactive")>>)>>)

-----------------------------------------------------------------------------
(* The pipeline on a file system: parse_django_file_ast followed by        *)
(* transform_models_py (src/server/app.py:229-232), while files are        *)
(* written and deleted.                                                     *)

Paths == {<<"app1/", "models.py">>, <<"Not Found", "/models.py">>}

\* the contents a models.py may have; content ids 1..Len(SampleFiles)
SampleFiles ==
    <<<<[kind |-> "model", body |-> <<"constA", "choices">>]>>,
      <<[kind |-> "model", body |-> <<"choices", "field_choices">>]>>>>
NoFile == 0
NotPython == -1
Contents == {NotPython} \cup 1..Len(SampleFiles)

\* path.exists() that is always true
PathExists_Always(files, path) == TRUE

\* src/parsing.py:8, path.exists()
PathExists(files, path) == files[path] # NoFile

\* src/parsing.py:9
NotFoundResult(path) ==
    PyDict([error |-> PyStr(<<"File ", "not found", ": ">> \o path),
            ast |-> PyNone])

\* src/parsing.py:20, e is the text of the exception
FailedResult(path, e) ==
    PyDict([error |-> PyStr(<<"Failed to parse ">> \o path \o <<": ">> \o e),
            ast |-> PyNone])

\* src/parsing.py:11-20: the try block, on the content read at this moment
ReadAndParse(path, content) ==
    IF content = NoFile
    THEN FailedResult(path, <<"[Errno 2] No such file or directory">>)
    ELSE IF content = NotPython
    THEN FailedResult(path, <<"invalid syntax">>)
    ELSE LET decls == SampleFiles[content]
             ast_dict == _ast_to_dict(FileTree(decls), FileSource(decls))
         IN  PyDict([file_path |-> PyStr(path),
                     ast_declarations |-> ast_dict.v.body])

\* src/server/parsing.py:6-14: no existence check and no try block
ServerReadAndParse(path, content) ==
    IF content = NoFile THEN Raise("FileNotFoundError")
    ELSE IF content = NotPython THEN Raise("SyntaxError")
    ELSE LET decls == SampleFiles[content]
             ast_dict == server_ast_to_dict(FileTree(decls), FileSource(decls))
         IN  PyDict([file_path |-> PyStr(path),
                     ast_declarations |-> ast_dict.v.body])

\* str.lower() of one chunk of the texts that occur in an error message
LowerChunk(c) ==
    CASE c = "File " -> "file "
      [] c = "Failed to parse " -> "failed to parse "
      [] c = "Not Found" -> "not found"
      [] c = "[Errno 2] No such file or directory" ->
            "[errno 2] no such file or directory"
      [] OTHER -> c

\* str.lower()
Lower(s) == [i \in 1..Len(s) |-> LowerChunk(s[i])]

\* q in s, for a text q that is one chunk
Contains(s, q) == \E i \in 1..Len(s) : s[i] = q

NotFoundStatus == 404
FailureStatus == 500
OkStatus == 200

\* src/app.py:32: "not found" in raw_ast["error"].lower()
IsNotFoundError(error) == Contains(Lower(error), "not found")

\* src/app.py:31-32: the status the models endpoint answers a parser result
\* with; an exception that leaves the view is answered with the failure status
ResponseStatus(raw_ast) ==
    IF raw_ast.t = "raise" THEN FailureStatus
    ELSE IF "error" \in DOMAIN raw_ast.v
    THEN IF IsNotFoundError(raw_ast.v.error.v) THEN NotFoundStatus
         ELSE FailureStatus
    ELSE OkStatus

\* a served request: what the file was, what the parser and the extractor
\* gave, and whether the same content had been served before with a file of
\* other content served in between
Served(path, existed, content, raw_ast, models_data) ==
    [path |-> path, existed |-> existed, content |-> content,
     raw_ast |-> raw_ast, models_data |-> models_data,
     status |-> ResponseStatus(raw_ast),
     rerun |-> seen[content] # PyNone /\ seen[content].crossed]

\* the history of answers after content was answered with models_data
Remember(content, models_data) ==
    [c \in DOMAIN seen |->
        IF c = content
        THEN IF seen[c] = PyNone
             THEN [models_data |-> models_data, crossed |-> FALSE]
             ELSE seen[c]
        ELSE IF seen[c] # PyNone /\ content \in 1..Len(SampleFiles)
             THEN [seen[c] EXCEPT !.crossed = TRUE]
             ELSE seen[c]]

InitPipe ==
    /\ fs \in [Paths -> {NoFile} \cup Contents]
    /\ seen = [c \in {NoFile} \cup Contents |-> PyNone]
    /\ last = PyNone
    /\ req = PyNone
    /\ parser \in {"root", "server"}
    /\ class_level_vars = NoVars
    /\ class_level_choices_vars = NoVars
    /\ FlatIdle /\ ExtrIdle /\ OpsIdle

\* the environment writes a file
WriteFile(path, content) ==
    /\ fs[path] # content
    /\ fs' = [fs EXCEPT ![path] = content]
    /\ UNCHANGED <<seen, last, req, parser, class_level_vars,
                   class_level_choices_vars, flatVars, extrVars, opsVars>>

\* the environment deletes a file
DeleteFile(path) ==
    /\ fs[path] # NoFile
    /\ fs' = [fs EXCEPT ![path] = NoFile]
    /\ UNCHANGED <<seen, last, req, parser, class_level_vars,
                   class_level_choices_vars, flatVars, extrVars, opsVars>>

\* src/server/app.py:232: transform_models_py(raw_ast), whose run is run, ends
\* the request for a path that existed or not and held content when read
Transform(path, existed, content, raw_ast, run) ==
    /\ last' = Served(path, existed, content, raw_ast, RunOutput(run))
    /\ seen' = Remember(content, RunOutput(run))
    /\ class_level_vars' = run.clv
    /\ class_level_choices_vars' = run.clcv

\* the parser raised: the request ends with the exception
Propagate(path, existed, content, exc) ==
    /\ last' = Served(path, existed, content, exc, exc)
    /\ seen' = Remember(content, exc)
    /\ UNCHANGED <<class_level_vars, class_level_choices_vars>>

\* src/server/app.py:231-232
Respond(path, existed, content, raw_ast) ==
    IF raw_ast.t = "raise"
    THEN Propagate(path, existed, content, raw_ast)
    ELSE Transform(path, existed, content, raw_ast, TransformRun(raw_ast))

\* src/parsing.py:7-9 then src/server/app.py:232: the file is not there
RequestNotFound(path) ==
    /\ req = PyNone
    /\ parser = "root"
    /\ ~PathExists(fs, path)
    /\ Respond(path, FALSE, fs[path], NotFoundResult(path))
    /\ UNCHANGED <<fs, req, parser, flatVars, extrVars, opsVars>>

\* src/parsing.py:7-8 (the file is there) or src/server/parsing.py:7
RequestBegin(path) ==
    /\ req = PyNone
    /\ parser = "root" => PathExists(fs, path)
    /\ req' = [path |-> path, existed |-> PathExists(fs, path)]
    /\ UNCHANGED <<fs, seen, last, parser, class_level_vars,
                   class_level_choices_vars, flatVars, extrVars, opsVars>>

\* src/parsing.py:11-20 or src/server/parsing.py:8-14, then
\* src/server/app.py:232
RequestFinish ==
    /\ req # PyNone
    /\ Respond(req.path, req.existed, fs[req.path],
               IF parser = "root"
               THEN ReadAndParse(req.path, fs[req.path])
               ELSE ServerReadAndParse(req.path, fs[req.path]))
    /\ req' = PyNone
    /\ UNCHANGED <<fs, parser, flatVars, extrVars, opsVars>>

NextPipe ==
    \/ \E path \in Paths, content \in Contents : WriteFile(path, content)
    \/ \E path \in Paths : DeleteFile(path)
    \/ \E path \in Paths : RequestNotFound(path)
    \/ \E path \in Paths : RequestBegin(path)
    \/ RequestFinish

SpecPipe == InitPipe /\ [][NextPipe]_vars

------------------------------------------------------------------------------
\* Properties of the request pipeline

IsResult(r) == r.t = "dict"
HasError(r) == IsResult(r) /\ "error" \in DOMAIN r.v
NotFoundFlagged(r) ==
    HasError(r) /\ SubSeq(r.v.error.v, 1, 2) = <<"File ", "not found">>
SyntaxErrorFlagged(r) ==
    HasError(r) /\ Head(r.v.error.v) = "Failed to parse "
NoDeclarations(r) == IsResult(r) => "ast_declarations" \notin DOMAIN r.v

\* the path was absent from the existence check to the read
AbsentThroughout(s) == ~s.existed /\ s.content = NoFile
\* the path held text that is not Python from the check to the read
UnparseableThroughout(s) == s.existed /\ s.content = NotPython

\* C4: parse_django_file_ast on a path that does not exist yields an error
\* result flagged as not found and not as a syntax error; on an existing file
\* that is not parseable it yields an error result flagged as a syntax error
\* and not as not found; in both cases the result carries no declarations.
C4_MissingAndUnparseableFlagged ==
    last # PyNone =>
        /\ AbsentThroughout(last) =>
              /\ NotFoundFlagged(last.raw_ast)
              /\ ~SyntaxErrorFlagged(last.raw_ast)
              /\ NoDeclarations(last.raw_ast)
        /\ UnparseableThroughout(last) =>
              /\ SyntaxErrorFlagged(last.raw_ast)
              /\ ~NotFoundFlagged(last.raw_ast)
              /\ NoDeclarations(last.raw_ast)

\* C12: in the models endpoint an error result of the parser is answered
\* with the not-found status exactly when the file does not exist; every
\* other error, such as a syntax error in an existing file, whatever its path
\* or message, is answered with the failure status.
C12_NotFoundStatusOnlyForMissingFile ==
    (last # PyNone /\ parser = "root" /\ HasError(last.raw_ast)) =>
        /\ AbsentThroughout(last) => last.status = NotFoundStatus
        /\ (last.existed /\ last.content # NoFile) =>
              last.status = FailureStatus

-----------------------------------------------------------------------------
(* Properties of the extractor: sub-structure of field declarations *)

\* C11: the extractor never raises on the flattened tree of a syntactically
\* valid file: whatever the statements of a model class lack, the run returns
\* and every model class of the file has its record.
C11_ExtractorNeverRaises ==
    mpc = "done" =>
        /\ mout.t = "dict"
        /\ Len(ModelRecords) = Len(ModelDecls(mfile, 1))

\* the keyword map of the record of the field assigned by statement i
KwargsOf(body, i) == Key(FieldRecordOf(body, i), "kwargs").v

\* the keyword name and the literal written in a statement of KwConstItems
KwName(kind) == IF kind = "kw_true" THEN <<"null">> ELSE <<"default">>
KwLiteral(kind) ==
    CASE kind = "kw_true" -> PyBool(TRUE)
      [] kind = "kw_zero" -> PyInt(0)
      [] kind = "kw_empty" -> PyStr(<<>>)
      [] kind = "kw_false" -> PyBool(FALSE)
      [] kind = "kw_none" -> PyNone

\* C13: every keyword of a field call whose value is a Constant node is in
\* the keyword map of the field's record with its literal value, whether
\* the literal is a string, a number, a boolean or None.
C13_ConstantKeywordsRecorded ==
    OneModel =>
        \A i \in 1..Len(TheBody) :
            TheBody[i] \in KwConstItems =>
                /\ KwName(TheBody[i]) \in DOMAIN KwargsOf(TheBody, i)
                /\ KwargsOf(TheBody, i)[KwName(TheBody[i])]
                      = KwLiteral(TheBody[i])

\* C14: a keyword of a field call whose value is a List node is in the
\* keyword map as the list of its decoded elements (a name as its
\* identifier, a constant as its literal).
C14_ListKeywordDecoded ==
    OneModel =>
        \A i \in 1..Len(TheBody) :
            TheBody[i] = "kw_list" =>
                /\ <<"validators">> \in DOMAIN KwargsOf(TheBody, i)
                /\ KwargsOf(TheBody, i)[<<"validators">>]
                      = PyList(<<S("check"), PyInt(3)>>)

\* what a positional argument node must give in the args list
ArgDecoded(node, entry) ==
    IF node.cls = "Constant" THEN entry = node.f.value
    ELSE IF node.cls = "Name" THEN entry = node.f.id
    ELSE entry.t = "str"

\* C15: every positional argument of a field call gives one entry of the
\* args list, in call order: a Constant its literal, a Name its identifier,
\* an argument of any other shape a string; none is dropped.
C15_EveryPositionalArgRecorded ==
    OneModel =>
        \A i \in 1..Len(TheBody) :
            TheBody[i] \in ArgItems =>
                LET nodes == ShapeArgs(TheBody[i], 0)
                    args == Key(FieldRecordOf(TheBody, i), "args").v
                IN  /\ Len(args) = Len(nodes)
                    /\ \A p \in 1..Len(nodes) : ArgDecoded(nodes[p], args[p])

\* C16: a keyword whose value is an attribute of a simple name is recorded as
\* "<base-identifier>.<attribute-name>"; for a deeper chain the recorded
\* value is still a string and holds no placeholder for a missing identifier.
C16_AttributeKeywordDotted ==
    OneModel =>
        \A i \in 1..Len(TheBody) :
            /\ TheBody[i] = "kw_attr" =>
                  /\ <<"on_delete">> \in DOMAIN KwargsOf(TheBody, i)
                  /\ KwargsOf(TheBody, i)[<<"on_delete">>]
                        = PyStr(<<"models", ".", "CASCADE">>)
            /\ TheBody[i] = "kw_deep" =>
                  /\ <<"on_delete">> \in DOMAIN KwargsOf(TheBody, i)
                  /\ KwargsOf(TheBody, i)[<<"on_delete">>].t = "str"
                  /\ \A c \in 1..Len(KwargsOf(TheBody, i)[<<"on_delete">>].v) :
                        KwargsOf(TheBody, i)[<<"on_delete">>].v[c] # "None"

-----------------------------------------------------------------------------
(* Properties of the extractor: where a choices list may be declared *)

\* the resolved list the declarations ACTIVE, INACTIVE and STATUS_CHOICES
\* stand for when only the strings in consts are assigned
Resolved(consts) ==
    PyList(<<PyTuple(<<IF "ACTIVE" \in DOMAIN consts THEN consts["ACTIVE"]
                       ELSE S("ACTIVE"), S("Active")>>),
             PyTuple(<<IF "INACTIVE" \in DOMAIN consts THEN consts["INACTIVE"]
                       ELSE S("INACTIVE"), S("Inactive")>>)>>)

\* C17: a field's choices keyword is resolved when it names a *_CHOICES list
\* declared at module level above the class as well as when it names one
\* declared in the class above the field: the field's record carries the
\* resolved choices list in both cases.
C17_ModuleLevelChoicesResolved ==
    \A j \in 1..(IF Returned THEN Len(ModelDecls(mfile, 1)) ELSE 0) :
        LET dec == ModelDecls(mfile, 1)[j]
            fields == Key(ModelRecords[j], "fields").v
        IN  \A i \in 1..Len(dec.body) :
                (/\ dec.body[i] = "field_choices"
                 /\ \/ \E k \in 1..(i - 1) : dec.body[k] = "choices"
                    \/ \E k \in 1..(dec.pos - 1) :
                          mfile[k].kind = "choices_decl") =>
                    LET ch == Key(fields[CountIn(dec.body, i, FieldItems)],
                                  "choices")
                    IN  /\ ch.t = "list"
                        /\ Len(ch.v) = 2
                        /\ ch.v[1].v[2] = S("Active")
                        /\ ch.v[2].v[2] = S("Inactive")

\* the statements of a class body with its fields moved below the rest
FieldsLast(body) ==
    SelectSeq(body, LAMBDA k : k \notin FieldItems)
    \o SelectSeq(body, LAMBDA k : k \in FieldItems)

\* the choices of the field records of a run, in order (None where absent)
ChoicesOfFields(out) ==
    LET fields == Key(out.v.models.v[1], "fields").v
    IN  [i \in 1..Len(fields) |-> Key(fields[i], "choices")]

\* C18: choices resolution is two-pass: the resolved choices of the fields of
\* a class are the same whether the *_CHOICES list and the constants it
\* names are declared before or after the fields in the class body.
C18_ChoicesIndependentOfOrder ==
    (OneModel /\ \A i \in 1..Len(TheBody) : TheBody[i] \in ChoiceItems) =>
        ChoicesOfFields(mout) =
            ChoicesOfFields(transform_models_py(ServerParse(
                <<[kind |-> "model", body |-> FieldsLast(TheBody)]>>)))

-----------------------------------------------------------------------------
(* Properties of the extractor: the nested class Meta *)

\* the entries the statement of a Meta class stands for: one for a simple
\* assignment of a list literal of constants or of a scalar constant
MetaEntries(kind) ==
    CASE kind = "meta" -> (<<"ordering">> :> PyList(<<S("name")>>))
      [] kind = "meta_false" -> (<<"abstract">> :> PyBool(FALSE))
      [] kind = "meta_none" -> (<<"verbose_name">> :> PyNone)
      [] kind = "meta_listnone" -> (<<"ordering">> :> PyList(<<S("a"), PyNone>>))
      [] OTHER -> NoVars

LastMeta(body) ==
    LET metas == SelectSeq(body, LAMBDA k : k \in MetaItems)
    IN  metas[Len(metas)]

\* C19: the meta of a model with a nested class Meta has one entry per simple
\* assignment of the class whose value is a list literal of constants (all
\* elements kept) or a scalar constant (False and None included); a
\* statement of any other shape is omitted without error.
C19_MetaEntriesRecorded ==
    (/\ mpc = "done" /\ Len(mfile) = 1 /\ mfile[1].kind = "model"
     /\ \A i \in 1..Len(TheBody) : TheBody[i] \in MetaItems \cup {"field_plain"}
     /\ \E i \in 1..Len(TheBody) : TheBody[i] \in MetaItems) =>
        /\ Returned
        /\ LET meta == Key(ModelRecords[1], "meta").v
               entries == MetaEntries(LastMeta(TheBody))
           IN  /\ DOMAIN meta = DOMAIN entries
               /\ \A k \in DOMAIN meta : meta[k] = entries[k]

-----------------------------------------------------------------------------
(* Properties of the extractor: source position of a model class *)

\* the line of the file on which declaration i starts
RECURSIVE DeclStart(_, _)
DeclStart(decls, i) ==
    IF i = 1 THEN 1
    ELSE DeclStart(decls, i - 1) + Len(DeclLines(decls[i - 1]))

\* the line of the file on which declaration i ends
DeclEnd(decls, i) == DeclStart(decls, i) + Len(DeclLines(decls[i])) - 1

\* C20: every model record carries lineno and end_lineno, the first and last
\* line of its class in the source, with lineno <= end_lineno.
C20_ModelRecordsCarryLines ==
    \A j \in 1..(IF Returned THEN Len(ModelRecords) ELSE 0) :
        LET pos == ModelDecls(mfile, 1)[j].pos
            lineno == Key(ModelRecords[j], "lineno")
            end_lineno == Key(ModelRecords[j], "end_lineno")
        IN  /\ lineno = PyInt(DeclStart(mfile, pos))
            /\ end_lineno = PyInt(DeclEnd(mfile, pos))
            /\ lineno.v <= end_lineno.v

-----------------------------------------------------------------------------
(* Properties of the extractor: the choices key and the keyword map *)

\* C28: a field record has a choices key exactly when the choices keyword of
\* the field call names a *_CHOICES variable remembered from a statement above
\* the field, and then the keyword map has no choices entry; when the keyword
\* names anything else (a name never declared, or declared below the field)
\* the record has no choices key and the keyword map holds choices as the
\* identifier.
C28_ChoicesKeyOrKeywordEntry ==
    OneModel =>
        \A i \in 1..Len(TheBody) :
            TheBody[i] \in FieldItems =>
                LET rec == FieldRecordOf(TheBody, i)
                    kwargs == Key(rec, "kwargs").v
                    remembered == /\ TheBody[i] = "field_choices"
                                  /\ \E k \in 1..(i - 1) : TheBody[k] = "choices"
                IN  /\ ("choices" \in DOMAIN rec.v) <=> remembered
                    /\ remembered => <<"choices">> \notin DOMAIN kwargs
                    /\ (TheBody[i] = "field_choices" /\ ~remembered) =>
                          /\ <<"choices">> \in DOMAIN kwargs
                          /\ kwargs[<<"choices">>] = PyStr(StatusChoices)

\* a field above the list it names and a field below it, in one class
C28_Witness ==
    /\ OneModel
    /\ TheBody = <<"field_choices", "choices", "field_choices">>
    /\ "choices" \notin DOMAIN FieldRecordOf(TheBody, 1).v
    /\ Key(FieldRecordOf(TheBody, 1), "kwargs").v[<<"choices">>]
          = PyStr(StatusChoices)
    /\ Len(Key(FieldRecordOf(TheBody, 3), "choices").v) = 2
    /\ <<"choices">> \notin DOMAIN Key(FieldRecordOf(TheBody, 3), "kwargs").v

\* a file with every declaration but the one at pos replaced by a function,
\* so that the class at pos keeps its name and is the only class
Alone(decls, pos) ==
    [k \in 1..Len(decls) |->
        IF k = pos THEN decls[k] ELSE [kind |-> "func", body |-> <<"field_plain">>]]

\* the record transform_models_py gives for the class at pos of a file when
\* it is the only class of the file
AloneRecord(decls, pos) ==
    transform_models_py(ServerParse(Alone(decls, pos))).v.models.v[1]

\* C29: class-level constants are scoped to their class: in a file with
\* several model classes each model record equals the record produced when
\* its class is the only class of the file.
C29_ClassLevelNamesScoped ==
    \A j \in 1..(IF Returned THEN Len(ModelRecords) ELSE 0) :
        ModelRecords[j] = AloneRecord(mfile, ModelDecls(mfile, 1)[j].pos)

\* a class that assigns ACTIVE, then a class whose list names ACTIVE: the
\* second class does not see the first one's constant
C29_Witness ==
    /\ Returned
    /\ mfile = <<[kind |-> "model", body |-> <<"constA">>],
                 [kind |-> "model", body |-> <<"choices", "field_choices">>]>>
    /\ Key(Key(ModelRecords[2], "fields").v[1], "choices").v[1]
          = PyTuple(<<S("ACTIVE"), S("Active")>>)

-----------------------------------------------------------------------------
(* The management-command and superuser endpoints: the Flask handlers of    *)
(* src/openbase/app.py (the same text as src/server/app.py) and the REST    *)
(* view of src/openbase/openbase_app/views.py with its serializer.          *)

\* src/openbase/app.py:39-85
ALLOWED_DJANGO_COMMANDS ==
    {"migrate", "makemigrations", "runserver", "shell", "dbshell", "check",
     "showmigrations", "sqlmigrate", "inspectdb", "diffsettings",
     "collectstatic", "findstatic", "loaddata", "dumpdata", "flush",
     "createsuperuser", "changepassword", "test", "help", "version",
     "startapp", "startproject", "compilemessages", "makemessages",
     "clearsessions", "createcachetable", "squashmigrations", "import_data",
     "export_data", "cleanup", "backup_db", "restore_db", "send_emails",
     "process_queue", "update_search_index", "rebuild_cache"}

\* src/openbase/app.py:201-207: the commands that take an app name
AppCommands ==
    {"makemigrations", "migrate", "test", "showmigrations", "sqlmigrate"}

\* src/openbase/app.py:180; the chunk "backquote" is the character U+0060
DangerousChars == {";", "&&", "||", "|", "backquote", "$", ">", "<"}

\* str.isalnum() on the chunks used in app names
AlnumChunks == {"blog", "my", "app", "2"}
isalnum(s) == s # <<>> /\ \A i \in 1..Len(s) : s[i] \in AlnumChunks

\* str.replace(old, "")
Remove(s, old) == SelectSeq(s, LAMBDA c : c # old)

ManageTimeout == 300
SuperuserTimeout == 60

\* every command passes the whitelist
CommandAllowed_Any(command) == TRUE

\* src/openbase/app.py:166, serializers.py:13: command in the whitelist
CommandAllowed(command) ==
    /\ command.t = "str"
    /\ Len(command.v) = 1
    /\ command.v[1] \in ALLOWED_DJANGO_COMMANDS

\* src/openbase/app.py:180, serializers.py:22
HasDangerousChar(a) == \E i \in 1..Len(a.v) : a.v[i] \in DangerousChars

\* a request that ends before any subprocess is started
Rejected(status) == [status |-> status, vector |-> PyNone]
\* a request that goes on to subprocess.run(vector, ...)
Runs(vector) == [status |-> 0, vector |-> vector]

\* src/openbase/app.py:152-221: the way to subprocess.run
FlaskManage(data, python_executable) ==
    LET command == Key(data, "command")
        args == Get(data, "args", PyList(<<>>))
        app_name == Key(data, "app_name")
        cmd_list == <<S(python_executable), S("manage.py"), command>>
    IN  IF ~Truthy(data) THEN Rejected(400)
        ELSE IF ~Truthy(command) THEN Rejected(400)
        ELSE IF command.t \in {"list", "dict"}
        THEN Rejected(500)      \* TypeError: unhashable type, line 166
        ELSE IF ~CommandAllowed(command) THEN Rejected(403)
        ELSE IF args.t # "list" THEN Rejected(400)
        ELSE IF \E i \in 1..Len(args.v) :
                    args.v[i].t # "str" \/ HasDangerousChar(args.v[i])
        THEN Rejected(400)
        ELSE IF Truthy(app_name) /\ command.v[1] \in AppCommands
        THEN IF app_name.t # "str"
             THEN Rejected(500) \* AttributeError: no attribute replace, line 209
             ELSE IF ~isalnum(Remove(Remove(app_name.v, "_"), "-"))
             THEN Rejected(400)
             ELSE Runs(cmd_list \o <<app_name>> \o args.v)
        ELSE Runs(cmd_list \o args.v)

\* serializers.CharField(): the trimmed text of a str, str(n) of a number,
\* None for a value the field rejects (null, blank, bool, list, dict)
CharField(value) ==
    IF value.t = "str" /\ Strip(value.v) # <<>> THEN PyStr(Strip(value.v))
    ELSE IF value.t = "int" THEN PyStr(<<ToString(value.v)>>)
    ELSE PyNone

\* serializers.py:13: membership in settings.ALLOWED_DJANGO_COMMANDS; the
\* settings module of the Django project is taken to hold the whitelist above
SettingsCommandAllowed(command) == CommandAllowed(command)

\* serializers.py:6-26 and views.py:109-140
RestManage(data, python_executable) ==
    LET command == CharField(Get(data, "command", PyNone))
        given == Get(data, "args", PyList(<<>>))
        args == IF given.t = "list"
                THEN [i \in 1..Len(given.v) |-> CharField(given.v[i])]
                ELSE <<>>
    IN  IF data = PyNone THEN Rejected(400)
        ELSE IF command = PyNone \/ ~SettingsCommandAllowed(command)
        THEN Rejected(400)
        ELSE IF given.t # "list" THEN Rejected(400)
        ELSE IF \E i \in 1..Len(args) :
                    args[i] = PyNone \/ HasDangerousChar(args[i])
        THEN Rejected(400)
        ELSE Runs(<<S(python_executable), S("/project/manage.py"), command>>
                  \o args)

\* src/openbase/app.py:466-507
FlaskSuperuser(data, python_executable) ==
    LET email == Key(data, "email")
        password == Key(data, "password")
    IN  IF ~Truthy(data) THEN Rejected(400)
        ELSE IF ~Truthy(email) \/ ~Truthy(password) THEN Rejected(400)
        ELSE IF email.t # "str"
        THEN Rejected(500)      \* TypeError at "@" not in email, line 476
        ELSE IF ~Contains(email.v, "@") \/ ~Contains(email.v, ".")
        THEN Rejected(400)
        ELSE Runs(<<S(python_executable), S("manage.py"),
                    S("createsuperuser"), S("--noinput")>>)

\* the JSON bodies sent to the endpoints
CommandValues ==
    {S("migrate"), S("check"), S("rm"), PyStr(<<>>), PyInt(5),
     PyList(<<S("migrate")>>), PyNone}
ArgsValues ==
    {PyList(<<>>), PyList(<<S("--noinput")>>),
     PyList(<<PyStr(<<"a", ";", "b">>)>>), PyList(<<PyInt(5)>>),
     PyList(<<S("--plan"), S("--noinput")>>), S("--noinput")}
AppNameValues ==
    {PyNone, S("blog"), PyStr(<<"my", "_", "app", "-", "2">>),
     PyStr(<<"my", " ", "app">>), PyInt(5)}
ManagePayloads ==
    {PyDict([command |-> c]) : c \in CommandValues}
    \cup {PyDict([command |-> S("migrate"), args |-> a]) : a \in ArgsValues}
    \cup {PyDict([command |-> c, args |-> a, app_name |-> n]) :
              c \in {S("migrate"), S("check")},
              a \in {PyList(<<S("--plan"), S("--noinput")>>)},
              n \in AppNameValues}
    \cup {PyNone}
SuperuserPayloads ==
    {PyDict([email |-> e, password |-> S("pw")]) :
        e \in {PyStr(<<"a", "@", "b", ".", "c">>), S("nobody"), PyInt(5),
               PyNone}}
    \cup {PyNone}
PythonExecutables == {"/project/venv/bin/python", "python"}

InitManage ==
    /\ job = PyNone
    /\ reply = PyNone
    /\ FlatIdle /\ ExtrIdle /\ PipeIdle
    /\ AppsIdle /\ ChatIdle /\ ModifyIdle

\* what is kept of a request: who served it, what was sent, the subprocess
\* it started (None if none), how often it started it, and how it ended
Handled(endpoint, kind, data, decision, timeout) ==
    [endpoint |-> endpoint, kind |-> kind, data |-> data,
     vector |-> decision.vector, timeout |-> timeout,
     starts |-> IF decision.vector = PyNone THEN 0 ELSE 1,
     status |-> decision.status, outcome |-> "rejected"]

\* a handler up to its return or to its call of subprocess.run: the request
\* is answered, or waits for its subprocess
Replied(h) == IF h.vector = PyNone THEN [h EXCEPT !.timeout = 0] ELSE reply
Waiting(h) == IF h.vector = PyNone THEN job ELSE h
ManageFrame ==
    UNCHANGED <<flatVars, extrVars, pipeVars, appsVars, chatVars, modifyVars>>

\* src/openbase/app.py:147-231
ManageFlask(data, python_executable) ==
    /\ job = PyNone
    /\ reply' = Replied(Handled("flask", "manage", data,
                                FlaskManage(data, python_executable),
                                ManageTimeout))
    /\ job' = Waiting(Handled("flask", "manage", data,
                              FlaskManage(data, python_executable),
                              ManageTimeout))
    /\ ManageFrame

\* views.py:104-150
ManageRest(data, python_executable) ==
    /\ job = PyNone
    /\ reply' = Replied(Handled("rest", "manage", data,
                                RestManage(data, python_executable),
                                ManageTimeout))
    /\ job' = Waiting(Handled("rest", "manage", data,
                              RestManage(data, python_executable),
                              ManageTimeout))
    /\ ManageFrame

\* src/openbase/app.py:460-515
SuperuserFlask(data, python_executable) ==
    /\ job = PyNone
    /\ reply' = Replied(Handled("flask", "superuser", data,
                                FlaskSuperuser(data, python_executable),
                                SuperuserTimeout))
    /\ job' = Waiting(Handled("flask", "superuser", data,
                              FlaskSuperuser(data, python_executable),
                              SuperuserTimeout))
    /\ ManageFrame

\* the status a handler answers with when its subprocess returned
ExitStatus(endpoint, kind, returncode, already_exists) ==
    IF kind = "manage" \/ returncode = 0 THEN 200
    ELSE IF already_exists THEN 409 ELSE 500

\* subprocess.run returns: src/openbase/app.py:233-241, 517-546;
\* views.py:152-160
ProcessExits(returncode, already_exists) ==
    /\ job # PyNone
    /\ reply' = [job EXCEPT !.outcome = "exited",
                            !.status = ExitStatus(job.endpoint, job.kind,
                                                  returncode, already_exists)]
    /\ job' = PyNone
    /\ ManageFrame

\* subprocess.run raises TimeoutExpired after job.timeout seconds:
\* src/openbase/app.py:243-244, 548-549 answer 408; views.py has no handler,
\* the exception leaves the view and the framework answers 500
ProcessTimesOut ==
    /\ job # PyNone
    /\ reply' = [job EXCEPT !.outcome =
                               IF job.endpoint = "flask" THEN "timeout"
                               ELSE "unhandled",
                            !.status =
                               IF job.endpoint = "flask" THEN 408 ELSE 500]
    /\ job' = PyNone
    /\ ManageFrame

NextManage ==
    \/ \E data \in ManagePayloads, py \in PythonExecutables :
          ManageFlask(data, py)
    \/ \E data \in ManagePayloads, py \in PythonExecutables :
          ManageRest(data, py)
    \/ \E data \in SuperuserPayloads, py \in PythonExecutables :
          SuperuserFlask(data, py)
    \/ \E returncode \in {0, 1}, already_exists \in BOOLEAN :
          ProcessExits(returncode, already_exists)
    \/ ProcessTimesOut

SpecManage == InitManage /\ [][NextManage]_vars

-----------------------------------------------------------------------------
(* Properties of the management-command and superuser endpoints *)

\* the requests the state knows of: the one waiting and the one answered last
Known == {r \in {job, reply} : r # PyNone}
Started(r) == r.vector # PyNone
IsName(v) == v.t = "str"

C22_TimeoutEndsRequest ==
    \A r \in Known :
        Started(r) =>
            /\ r.timeout = (IF r.kind = "manage" THEN ManageTimeout
                            ELSE SuperuserTimeout)
            /\ r.starts = 1
            /\ r.outcome \in {"timeout", "unhandled"} =>
                  r.outcome = "timeout" /\ r.status = 408

\* C24: the Flask management-command endpoint never starts a subprocess whose
\* vector holds a non-string element or an element with one of ; && || |
\* ` $ > <; a request with such an argument, with args that are not a list,
\* or with an invalid app_name for a command that takes one, is rejected
\* with 400 before a subprocess is started; the vector run is
\* [python, manage.py, command, app_name if given, then the args in order].
C24_NoInjectableVector ==
    \A r \in Known :
        (r.kind = "manage" /\ r.endpoint = "flask" /\ r.data # PyNone) =>
            LET command == Key(r.data, "command")
                args == Get(r.data, "args", PyList(<<>>))
                app_name == Key(r.data, "app_name")
                wanted == CommandAllowed(command)
                scoped == wanted /\ command.v[1] \in AppCommands
                         /\ Truthy(app_name)
                badArgs == \/ args.t # "list"
                           \/ \E i \in 1..Len(args.v) :
                                 \/ args.v[i].t # "str"
                                 \/ HasDangerousChar(args.v[i])
                badName == scoped /\ (\/ app_name.t # "str"
                                      \/ ~isalnum(Remove(Remove(app_name.v,
                                                          "_"), "-")))
            IN  /\ Started(r) =>
                      /\ \A i \in 1..Len(r.vector) :
                            /\ r.vector[i].t = "str"
                            /\ ~HasDangerousChar(r.vector[i])
                      /\ SubSeq(r.vector, 2, 3) = <<S("manage.py"), command>>
                      /\ SubSeq(r.vector, 4, Len(r.vector)) =
                            (IF scoped THEN <<app_name>> ELSE <<>>) \o args.v
                /\ (wanted /\ (badArgs \/ badName)) =>
                      ~Started(r) /\ r.status = 400

-----------------------------------------------------------------------------
(* App scaffolding: create_app of src/openbase/app.py, served by several    *)
(* threads of one process, and AppsViewSet.create of                        *)
(* src/openbase/openbase_app/viewsets.py.  The working directory is one per *)
(* process; each access to it or to the file system is one step.            *)

Threads == {"t1", "t2"}

\* settings.DJANGO_PROJECT_APPS_DIRS[0], a directory outside of it, and the
\* directory the server was started in
AppsDir == "/project/apps"
OutsideDir == "/tmp"
ServerCwd == "/srv"
AppNames == {"blog", "shop", "news"}

\* directory_path / app_name
AppDirectory(directory, app_name) == <<directory, app_name>>

\* a directory on disk: the targets of the requests whose scaffolding wrote
\* into it, and the number of requests that created it and went on to pull
Directory(files, pullers) == [files |-> files, pullers |-> pullers]

ThreadIdle ==
    [pc |-> "idle", endpoint |-> "none", target |-> <<>>, saved |-> <<>>,
     status |-> 0, found |-> FALSE]

InitApps ==
    /\ cwd = <<ServerCwd>>
    /\ dirs = (<<ServerCwd>> :> Directory({}, 0))
              @@ (AppDirectory(AppsDir, "blog")
                     :> Directory({AppDirectory(AppsDir, "blog")}, 1))
    /\ workers = [t \in Threads |-> ThreadIdle]
    /\ FlatIdle /\ ExtrIdle /\ PipeIdle
    /\ ManageIdle /\ ChatIdle /\ ModifyIdle

Free(t) == workers[t].pc \in {"idle", "done"}
Done(w, status) == [w EXCEPT !.pc = "done", !.status = status]
AppsFrame ==
    UNCHANGED <<flatVars, extrVars, pipeVars, manageVars, chatVars,
                modifyVars>>

\* src/openbase/app.py:560-652: the payload and location checks
is_valid_location(directory) == directory = AppsDir

CreateAppBegin(t, directory, app_name) ==
    /\ Free(t)
    /\ workers' = [workers EXCEPT ![t] =
          IF is_valid_location(directory)
          THEN [ThreadIdle EXCEPT !.pc = "exists", !.endpoint = "flask",
                                  !.target = AppDirectory(directory, app_name)]
          ELSE [ThreadIdle EXCEPT !.pc = "done", !.endpoint = "flask",
                                  !.target = AppDirectory(directory, app_name),
                                  !.status = 400]]
    /\ UNCHANGED <<cwd, dirs>>
    /\ AppsFrame

\* src/openbase/app.py:655-658: if app_directory.exists(): 409
CreateAppExists(t) ==
    /\ workers[t].pc = "exists" /\ workers[t].endpoint = "flask"
    /\ workers' = [workers EXCEPT ![t] =
          IF workers[t].target \in DOMAIN dirs
          THEN [Done(workers[t], 409) EXCEPT !.found = TRUE]
          ELSE [workers[t] EXCEPT !.pc = "mkdir"]]
    /\ UNCHANGED <<cwd, dirs>>
    /\ AppsFrame

\* src/openbase/app.py:661 and 706-709: mkdir(parents=True, exist_ok=False);
\* FileExistsError is answered 409
CreateAppMkdir(t) ==
    /\ workers[t].pc = "mkdir" /\ workers[t].endpoint = "flask"
    /\ IF workers[t].target \in DOMAIN dirs
       THEN /\ workers' = [workers EXCEPT ![t] = Done(workers[t], 409)]
            /\ dirs' = dirs
       ELSE /\ workers' = [workers EXCEPT ![t].pc = "getcwd"]
            /\ dirs' = dirs @@ (workers[t].target :> Directory({}, 0))
    /\ cwd' = cwd
    /\ AppsFrame

\* src/openbase/app.py:664: original_cwd = os.getcwd()
CreateAppGetcwd(t) ==
    /\ workers[t].pc = "getcwd"
    /\ workers' = [workers EXCEPT ![t].pc = "chdir", ![t].saved = cwd]
    /\ UNCHANGED <<cwd, dirs>>
    /\ AppsFrame

\* src/openbase/app.py:668: os.chdir(app_directory)
CreateAppChdir(t) ==
    /\ workers[t].pc = "chdir"
    /\ cwd' = workers[t].target
    /\ workers' = [workers EXCEPT ![t].pc = "pull"]
    /\ dirs' = [dirs EXCEPT ![workers[t].target].pullers = @ + 1]
    /\ AppsFrame

\* src/openbase/app.py:676-685: boilersync_pull renders the template into the
\* working directory of the process, or raises
CreateAppPull(t, raises) ==
    /\ workers[t].pc = "pull"
    /\ IF raises
       THEN /\ workers' = [workers EXCEPT ![t].pc = "finally",
                                          ![t].status = 404]
            /\ dirs' = dirs
       ELSE /\ workers' = [workers EXCEPT ![t].pc = "finally",
                                          ![t].status = 200]
            /\ dirs' = [dirs EXCEPT ![cwd].files = @ \cup {workers[t].target}]
    /\ cwd' = cwd
    /\ AppsFrame

\* src/openbase/app.py:686-711: finally: os.chdir(original_cwd), then the
\* response
CreateAppFinally(t) ==
    /\ workers[t].pc = "finally"
    /\ cwd' = workers[t].saved
    /\ workers' = [workers EXCEPT ![t].pc = "done"]
    /\ dirs' = dirs
    /\ AppsFrame

\* viewsets.py:189-198: the target is always below the first apps directory
AppsCreateBegin(t, app_name) ==
    /\ Free(t)
    /\ workers' = [workers EXCEPT ![t] =
          [ThreadIdle EXCEPT !.pc = "exists", !.endpoint = "rest",
                             !.target = AppDirectory(AppsDir, app_name)]]
    /\ UNCHANGED <<cwd, dirs>>
    /\ AppsFrame

\* viewsets.py:199-201: if app_dir.exists(): raise ValidationError (400)
AppsCreateExists(t) ==
    /\ workers[t].pc = "exists" /\ workers[t].endpoint = "rest"
    /\ workers' = [workers EXCEPT ![t] =
          IF workers[t].target \in DOMAIN dirs
          THEN [Done(workers[t], 400) EXCEPT !.found = TRUE]
          ELSE [workers[t] EXCEPT !.pc = "mkdir"]]
    /\ UNCHANGED <<cwd, dirs>>
    /\ AppsFrame

\* viewsets.py:203: app_dir.mkdir(parents=True); FileExistsError leaves the
\* view unhandled (500)
AppsCreateMkdir(t) ==
    /\ workers[t].pc = "mkdir" /\ workers[t].endpoint = "rest"
    /\ IF workers[t].target \in DOMAIN dirs
       THEN /\ workers' = [workers EXCEPT ![t] = Done(workers[t], 500)]
            /\ dirs' = dirs
       ELSE /\ workers' = [workers EXCEPT ![t].pc = "write"]
            /\ dirs' = dirs @@ (workers[t].target :> Directory({}, 1))
    /\ cwd' = cwd
    /\ AppsFrame

\* viewsets.py:205-240: the files are written below app_dir
AppsCreateWrite(t) ==
    /\ workers[t].pc = "write"
    /\ dirs' = [dirs EXCEPT ![workers[t].target].files =
                                @ \cup {workers[t].target}]
    /\ workers' = [workers EXCEPT ![t] = Done(workers[t], 200)]
    /\ cwd' = cwd
    /\ AppsFrame

NextApps ==
    \E t \in Threads :
        \/ \E directory \in {AppsDir, OutsideDir}, app_name \in AppNames :
              CreateAppBegin(t, directory, app_name)
        \/ CreateAppExists(t)
        \/ CreateAppMkdir(t)
        \/ CreateAppGetcwd(t)
        \/ CreateAppChdir(t)
        \/ \E raises \in BOOLEAN : CreateAppPull(t, raises)
        \/ CreateAppFinally(t)
        \/ \E app_name \in AppNames : AppsCreateBegin(t, app_name)
        \/ AppsCreateExists(t)
        \/ AppsCreateMkdir(t)
        \/ AppsCreateWrite(t)

SpecApps == InitApps /\ [][NextApps]_vars

-----------------------------------------------------------------------------
(* Properties of app scaffolding *)

Serving == workers # <<>>
Quiet == \A t \in Threads : Free(t)

\* C25: create_app always restores the working directory of the process:
\* once every create_app request has completed, whether its template pull
\* succeeded or raised and however the requests were interleaved, the
\* working directory is the one the process had before.
C25_WorkingDirectoryRestored ==
    (Serving /\ Quiet) => cwd = <<ServerCwd>>

\* C26: create_app never scaffolds into a directory that already existed: a
\* request that finds its target answers 409 and writes nothing, a target
\* outside the configured app directories is answered 400 and not created,
\* of the requests naming one target at most one reaches the template pull,
\* and a directory holds only what the request that created it wrote.
C26_NoScaffoldIntoExisting ==
    Serving =>
        /\ \A t \in Threads :
              (workers[t].pc = "done" /\ workers[t].found) =>
                  workers[t].status = 409
        /\ \A t \in Threads :
              (workers[t].pc = "done" /\ workers[t].endpoint = "flask"
               /\ workers[t].target[1] = OutsideDir) =>
                  /\ workers[t].status = 400
                  /\ workers[t].target \notin DOMAIN dirs
        /\ \A d \in DOMAIN dirs :
              /\ dirs[d].pullers <= 1
              /\ dirs[d].files \subseteq {d}

-----------------------------------------------------------------------------
(* The chat endpoint: MessageViewSet.send_to_claude of                      *)
(* src/openbase/coder/views.py, served by several threads over one message  *)
(* table.  Each database operation and the start of the CLI is one step.    *)

Sessions == {"s1", "s2"}
\* the number of user messages sent in one behaviour
MaxChat == 3

ChatThreadIdle == [pc |-> "idle", session |-> "", first |-> FALSE, status |-> 0]

InitChat ==
    /\ messages = [s \in Sessions |-> <<>>]
    /\ invocations = <<>>
    /\ chats = [t \in Threads |-> ChatThreadIdle]
    /\ FlatIdle /\ ExtrIdle /\ PipeIdle
    /\ ManageIdle /\ AppsIdle /\ ModifyIdle

ChatFrame ==
    UNCHANGED <<flatVars, extrVars, pipeVars, manageVars, appsVars,
                modifyVars>>

\* the rows of role "user" in the table
UserMessages(s) == Len(SelectSeq(messages[s], LAMBDA role : role = "user"))
Sent == UserMessages("s1") + UserMessages("s2")

\* views.py:46-48: the serializer rejects the payload
SendInvalid(t) ==
    /\ chats[t].pc = "idle"
    /\ chats[t].status # 400
    /\ chats' = [chats EXCEPT ![t] = [ChatThreadIdle EXCEPT !.status = 400]]
    /\ UNCHANGED <<messages, invocations>>
    /\ ChatFrame

\* views.py:51-54: message = serializer.save()
SendSave(t, session) ==
    /\ chats[t].pc = "idle"
    /\ Sent < MaxChat
    /\ messages' = [messages EXCEPT ![session] = Append(@, "user")]
    /\ chats' = [chats EXCEPT ![t] =
                    [ChatThreadIdle EXCEPT !.pc = "count", !.session = session]]
    /\ UNCHANGED invocations
    /\ ChatFrame

\* views.py:60-62: only the message just created
is_first_message(previous_messages) == Len(previous_messages) = 1

\* views.py:57-62: the rows of the session are read and counted
SendCount(t) ==
    /\ chats[t].pc = "count"
    /\ chats' = [chats EXCEPT ![t].pc = "run",
                              ![t].first =
                                  is_first_message(messages[chats[t].session])]
    /\ UNCHANGED <<messages, invocations>>
    /\ ChatFrame

\* views.py:66-84: the flag of the command line
SessionFlag(first) == IF first THEN "--session-id" ELSE "--resume"

\* views.py:87-94: subprocess.run(cmd, ...) starts the CLI
SendRun(t) ==
    /\ chats[t].pc = "run"
    /\ invocations' = Append(invocations,
                             [session |-> chats[t].session,
                              flag |-> SessionFlag(chats[t].first)])
    /\ chats' = [chats EXCEPT ![t].pc = "wait"]
    /\ UNCHANGED messages
    /\ ChatFrame

\* views.py:96-119: the CLI returned and the assistant message is stored
SendReturns(t) ==
    /\ chats[t].pc = "wait"
    /\ messages' = [messages EXCEPT ![chats[t].session] = Append(@, "assistant")]
    /\ chats' = [chats EXCEPT ![t].pc = "idle", ![t].status = 200]
    /\ UNCHANGED invocations
    /\ ChatFrame

\* views.py:121-144: the CLI timed out (408) or could not be run (500); no
\* assistant message is stored
SendFails(t, status) ==
    /\ chats[t].pc = "wait"
    /\ chats' = [chats EXCEPT ![t].pc = "idle", ![t].status = status]
    /\ UNCHANGED <<messages, invocations>>
    /\ ChatFrame

NextChat ==
    \E t \in Threads :
        \/ SendInvalid(t)
        \/ \E session \in Sessions : SendSave(t, session)
        \/ SendCount(t)
        \/ SendRun(t)
        \/ SendReturns(t)
        \/ \E status \in {408, 500} : SendFails(t, status)

SpecChat == InitChat /\ [][NextChat]_vars

-----------------------------------------------------------------------------
(* Properties of the chat endpoint *)

\* the flags of the invocations of one session, in the order they were started
FlagsOf(s) ==
    LET mine == SelectSeq(invocations, LAMBDA i : i.session = s)
    IN  [k \in 1..Len(mine) |-> mine[k].flag]

\* C27: for every chat session and every sequence or interleaving of
\* send_to_claude requests, the first CLI invocation of the session, and no
\* other, is started with --session-id; every other one is started with
\* --resume, and --resume is never used before the --session-id invocation.
C27_OneSessionIdThenResume ==
    \A s \in Sessions :
        \A k \in 1..Len(FlagsOf(s)) :
            FlagsOf(s)[k] = (IF k = 1 THEN "--session-id" ELSE "--resume")

-----------------------------------------------------------------------------
(* Source modification: SourceCodeViewSet.modify of                         *)
(* src/openbase/openbase_app/viewsets.py with its serializer and            *)
(* replace_ast_node_source of src/openbase/openbase_app/utils.py.  A file   *)
(* is the sequence of its characters.                                       *)

\* Path.read_text(): "\r\n" and "\r" are read as "\n"
RECURSIVE read_text(_)
read_text(chars) ==
    IF chars = <<>> THEN <<>>
    ELSE IF Head(chars) = "\r"
    THEN <<"\n">> \o read_text(IF Len(chars) > 1 /\ chars[2] = "\n"
                               THEN Tail(Tail(chars)) ELSE Tail(chars))
    ELSE <<Head(chars)>> \o read_text(Tail(chars))

\* Path.write_text(): "\n" is written as os.linesep
RECURSIVE write_text(_, _)
write_text(text, linesep) ==
    IF text = <<>> THEN <<>>
    ELSE (IF Head(text) = "\n" THEN linesep ELSE <<Head(text)>>)
         \o write_text(Tail(text), linesep)

\* source_code.split('\n')
RECURSIVE Split(_)
Split(text) ==
    LET i == Find(text, "\n")
    IN  IF i = -1 THEN <<text>>
        ELSE <<SubSeq(text, 1, i)>> \o Split(SubSeq(text, i + 2, Len(text)))

\* sum(len(lines[i]) + 1 for i in range(n))
RECURSIVE SumLens(_, _)
SumLens(lines, n) ==
    IF n = 0 THEN 0 ELSE SumLens(lines, n - 1) + Len(lines[n]) + 1

\* source_code[:pos] and source_code[pos:] for pos >= 0
UpTo(text, pos) == SubSeq(text, 1, IF pos > Len(text) THEN Len(text) ELSE pos)
From(text, pos) == SubSeq(text, (IF pos > Len(text) THEN Len(text) ELSE pos) + 1,
                          Len(text))

\* utils.py:94-123; lines[i] beyond the last line raises IndexError
replace_ast_node_source(source_code, start_line, start_col, end_line, end_col, replacement) ==
    LET lines == Split(source_code)
    IN  IF start_line - 1 > Len(lines) \/ end_line - 1 > Len(lines)
        THEN Raise("IndexError")
        ELSE LET start_pos == SumLens(lines, start_line - 1) + start_col
                 end_pos == SumLens(lines, end_line - 1) + end_col
             IN  PyStr(UpTo(source_code, start_pos) \o replacement
                       \o From(source_code, end_pos))

\* serializers.py:55-68: the validated data, or None when a field or
\* validate() rejects the payload
SourceCodeModificationSerializer(data) ==
    LET replacement == CharField(PyStr(data.replacement))
    IN  IF \/ data.start_line < 1 \/ data.start_col < 0
           \/ data.end_line < 1 \/ data.end_col < 0
           \/ replacement = PyNone
        THEN PyNone
        ELSE IF data.end_line < data.start_line THEN PyNone
        ELSE IF data.end_line = data.start_line /\ data.end_col < data.start_col
        THEN PyNone
        ELSE PyDict([data EXCEPT !.replacement = replacement.v])

\* the file and the ways it is stored on disk
SourcePath == "models.py"
SourceFiles ==
    {<<"a", "b", "\n", "c", "\n">>,
     <<"a", "b", "\r", "\n", "c", "\r", "\n">>,
     <<"a", " ", " ", "b">>}
Lineseps == {<<"\n">>, <<"\r", "\n">>}

\* the addressed positions of a file as it is stored: its lines with their
\* line ends, the length of a line without its line end, the number of
\* characters before (line, col)
EndLen(l) ==
    IF l # <<>> /\ l[Len(l)] = "\n"
    THEN (IF Len(l) > 1 /\ l[Len(l) - 1] = "\r" THEN 2 ELSE 1)
    ELSE 0
Inside(chars, line, col) ==
    /\ line \in 1..Len(splitlines(chars))
    /\ col \in 0..(Len(splitlines(chars)[line]) - EndLen(splitlines(chars)[line]))
RECURSIVE Offset(_, _, _)
Offset(ls, line, col) ==
    IF line = 1 THEN col ELSE Len(Head(ls)) + Offset(Tail(ls), line - 1, col)
TextBefore(chars, line, col) ==
    SubSeq(chars, 1, Offset(splitlines(chars), line, col))
TextFrom(chars, line, col) ==
    SubSeq(chars, Offset(splitlines(chars), line, col) + 1, Len(chars))
Ordered(d) ==
    \/ d.start_line < d.end_line
    \/ d.start_line = d.end_line /\ d.start_col <= d.end_col
Addressed(chars, d) ==
    /\ Inside(chars, d.start_line, d.start_col)
    /\ Inside(chars, d.end_line, d.end_col)
    /\ Ordered(d)
OwnText(chars, d) ==
    SubSeq(chars, Offset(splitlines(chars), d.start_line, d.start_col) + 1,
           Offset(splitlines(chars), d.end_line, d.end_col))

\* the payloads: positions around the file, a few replacement texts and the
\* text of the addressed range itself
Positions ==
    [start_line : 0..3, start_col : 0..2, end_line : 1..3, end_col : 0..2]
Replacements == {<<"x">>, <<"x", "\n">>, <<>>}
Own == <<"own">>
FilePaths == {SourcePath, "", "missing.py"}
ModifyInputs ==
    {i \in FilePaths \X Positions \X (Replacements \cup {Own}) :
        i[1] # SourcePath => (i[2].start_line = 1 /\ i[2].end_line = 1
                              /\ i[3] = <<"x">>)}
Payload(chars, f, p, r) ==
    [file_path |-> f, start_line |-> p.start_line, start_col |-> p.start_col,
     end_line |-> p.end_line, end_col |-> p.end_col,
     replacement |-> IF r = Own /\ Addressed(chars, p)
                     THEN OwnText(chars, p) ELSE r]

InitModify ==
    /\ disk \in {(SourcePath :> f) : f \in SourceFiles}
    /\ answer = PyNone
    /\ FlatIdle /\ ExtrIdle /\ PipeIdle
    /\ ManageIdle /\ AppsIdle /\ ChatIdle

\* what is kept of a request: the payload, the file before, the line end of
\* the platform and the status
Answered(data, linesep, status) ==
    [data |-> data, before |-> disk[SourcePath], linesep |-> linesep,
     status |-> status]

\* viewsets.py:364-397
Modify(data, linesep) ==
    LET validated == SourceCodeModificationSerializer(data)
        modified_code ==
            replace_ast_node_source(read_text(disk[data.file_path]),
                validated.v.start_line, validated.v.start_col,
                validated.v.end_line, validated.v.end_col,
                validated.v.replacement)
    IN  /\ answer = PyNone
        /\ IF validated = PyNone \/ data.file_path = ""
           THEN answer' = Answered(data, linesep, 400) /\ disk' = disk
           ELSE IF data.file_path \notin DOMAIN disk
           THEN answer' = Answered(data, linesep, 404) /\ disk' = disk
           ELSE IF modified_code.t = "raise"
           THEN answer' = Answered(data, linesep, 500) /\ disk' = disk
           ELSE /\ answer' = Answered(data, linesep, 200)
                /\ disk' = [disk EXCEPT ![data.file_path] =
                               write_text(modified_code.v, linesep)]
        /\ UNCHANGED <<flatVars, extrVars, pipeVars, manageVars, appsVars,
                       chatVars>>

\* the file is put back as it was stored
Checkout(f) ==
    /\ answer # PyNone
    /\ disk' = (SourcePath :> f)
    /\ answer' = PyNone
    /\ UNCHANGED <<flatVars, extrVars, pipeVars, manageVars, appsVars,
                   chatVars>>

NextModify ==
    \/ \E i \in ModifyInputs, linesep \in Lineseps :
          Modify(Payload(disk[SourcePath], i[1], i[2], i[3]), linesep)
    \/ \E f \in SourceFiles : Checkout(f)

SpecModify == InitModify /\ [][NextModify]_vars

-----------------------------------------------------------------------------
(* Properties of source modification *)

\* C30: the modification changes only the addressed range: for a request
\* whose start is not after its end, both inside the file, the written file
\* is the original text before the start, then the replacement, then the
\* original text from the end on; a request whose end precedes its start is
\* rejected and the file is not written.
C30_OnlyAddressedRangeChanges ==
    (answer # PyNone /\ answer.data.file_path = SourcePath) =>
        LET d == answer.data
        IN  /\ Addressed(answer.before, d) =>
                  disk[SourcePath] =
                      TextBefore(answer.before, d.start_line, d.start_col)
                      \o d.replacement
                      \o TextFrom(answer.before, d.end_line, d.end_col)
            /\ (d.start_line >= 1 /\ ~Ordered(d)) =>
                  answer.status = 400 /\ disk[SourcePath] = answer.before

====
